---- MODULE Spec2Model ----
(***************************************************************************)
(* A model of the synchronisation engine of antigravity-sync:              *)
(*   - the binary conflict resolver (GitService.handleSmartMerge, inline,  *)
(*     and GitService.resolveBinaryConflict),                              *)
(*   - GitService.pull and the recovery merge GitService.handleSmartMerge, *)
(*   - the SyncService orchestrator (sync / push / pull).                  *)
(***************************************************************************)
EXTENDS Integers, Sequences, FiniteSets, TLC

(***************************************************************************)
(* Bounds of the model.                                                    *)
(***************************************************************************)
\* file sizes handed to the resolver range over 0..MaxSize
MaxSize == 100
\* timestamps (milliseconds since the epoch) range over 0..MaxTime
MaxTime == 1

(***************************************************************************)
(* Program constants.                                                      *)
(***************************************************************************)
\* SIZE_DIFF_THRESHOLD = 0.2 (GitService.ts:399) and the literal 0.2 of
\* GitService.ts:527, in percent
SIZE_DIFF_THRESHOLD_PCT == 20

\* the callers whose operations may be in flight at once
Procs == {1, 2}

\* part_004:33 : gitService is null until initialize() creates a GitService
NoHandle == 0

VARIABLES
  rIn,        \* the resolver's inputs: sizes and timestamps of both sides
  rOut,       \* what each resolver implementation decided and logged
  repo,       \* the working directory, its .git metadata and the remote
  proc,       \* per caller: where its operation stands, and its locals
  isSyncing,  \* SyncService.isSyncing
  statusBar,  \* the state last given to StatusBarService.update
  gitService, \* SyncService.gitService: NoHandle for null, or the number of
              \* the GitService instance it holds
  source,     \* the source directory (config.geminiPath): path -> version
  nCalls,     \* the number of operations called so far
  now,        \* Date.now(), in milliseconds
  auto,       \* the auto-sync fields of SyncService and what the countdown
              \* callback was last given
  config      \* the settings of the extension and the stored credentials

resolverVars == <<rIn, rOut>>

orchVars == <<isSyncing, statusBar, gitService, source>>

timerVars == <<now, auto>>

vars == <<rIn, rOut, repo, proc, isSyncing, statusBar, gitService, source, nCalls,
          now, auto, config>>

(***************************************************************************)
(* The conflict resolver.                                                  *)
(*                                                                         *)
(* The code computes sizeDiffRatio = |l - r| / max(l, r) in IEEE doubles   *)
(* and compares it with the double 0.2.  For integer sizes below 2^53 the  *)
(* correctly rounded quotient exceeds the double nearest 0.2 exactly when  *)
(* the rational |l - r| / max exceeds 1/5, so the comparison is modelled   *)
(* in integers as  100 * |l - r| > 20 * max.                               *)
(***************************************************************************)
Abs(x) == IF x < 0 THEN -x ELSE x

MathMax(a, b) == IF a >= b THEN a ELSE b

\* GitService.ts:522-524 and :527 : sizeDiffRatio > 0.2, the ratio being 0
\* when both sizes are 0
InlineRatioExceedsMut(localSize, remoteSize) ==
  IF MathMax(localSize, remoteSize) > 0
    THEN 100 * Abs(localSize - remoteSize)
           >= SIZE_DIFF_THRESHOLD_PCT * MathMax(localSize, remoteSize)
    ELSE FALSE

InlineRatioExceeds(localSize, remoteSize) ==
  IF MathMax(localSize, remoteSize) > 0
    THEN 100 * Abs(localSize - remoteSize)
           > SIZE_DIFF_THRESHOLD_PCT * MathMax(localSize, remoteSize)
    ELSE FALSE

\* GitService.ts:528 : keepLocal = localSize >= remoteSize
InlineLargerKeepLocalMut(localSize, remoteSize) == localSize <= remoteSize

InlineLargerKeepLocal(localSize, remoteSize) == localSize >= remoteSize

\* GitService.ts:531 : keepLocal = localMtime >= remoteMtime
InlineNewerKeepLocalMut(localMtime, remoteMtime) == localMtime > remoteMtime

InlineNewerKeepLocal(localMtime, remoteMtime) == localMtime >= remoteMtime

\* GitService.ts:521-533 : the decision taken inline in handleSmartMerge and
\* the branch its log line names ("(larger)" or "(newer)")
InlineResolve(localSize, localMtime, remoteSize, remoteMtime) ==
  IF InlineRatioExceeds(localSize, remoteSize)
    THEN [keepLocal |-> InlineLargerKeepLocal(localSize, remoteSize),
          branch |-> "larger"]
    ELSE [keepLocal |-> InlineNewerKeepLocal(localMtime, remoteMtime),
          branch |-> "newer"]

\* GitService.ts:425-439 : the decision of resolveBinaryConflict
resolveBinaryConflictMut(localSize, localMtime, remoteSize, remoteMtime) ==
  LET maxSize == MathMax(localSize, remoteSize)
      exceeds == 100 * Abs(localSize - remoteSize)
                   > SIZE_DIFF_THRESHOLD_PCT * maxSize
  IN  IF exceeds
        THEN [keepLocal |-> localSize >= remoteSize, branch |-> "larger"]
        ELSE [keepLocal |-> localMtime > remoteMtime, branch |-> "newer"]

resolveBinaryConflict(localSize, localMtime, remoteSize, remoteMtime) ==
  LET maxSize == MathMax(localSize, remoteSize)
      exceeds == IF maxSize > 0
                   THEN 100 * Abs(localSize - remoteSize)
                          > SIZE_DIFF_THRESHOLD_PCT * maxSize
                   ELSE FALSE
  IN  IF exceeds
        THEN [keepLocal |-> localSize >= remoteSize, branch |-> "larger"]
        ELSE [keepLocal |-> localMtime >= remoteMtime, branch |-> "newer"]

\* 'local' | 'remote' (GitService.ts:449)
Side(keepLocal) == IF keepLocal THEN "local" ELSE "remote"

NoDecision == [side |-> "none", branch |-> "none"]

Decision(d) == [side |-> Side(d.keepLocal), branch |-> d.branch]

(***************************************************************************)
(* The repository: the working directory bound to one remote.              *)
(*                                                                         *)
(* A tree maps each path to the version of the file it holds (0: absent).  *)
(* The object store is the sequence `commits`; a commit is named by its    *)
(* index, 0 naming "no commit", and carries the time its change was        *)
(* written.  localHead is HEAD (branch main),                              *)
(* originHead the remote-tracking ref origin/main as of the last fetch,    *)
(* remoteHead the tip of main on the remote itself.                        *)
(***************************************************************************)
\* GitService.ts:496 : one path with a recognized binary extension, one without
Paths == {"a.png", "n.txt"}

binaryExtensionPaths == {"a.png"}

\* the size in bytes of each file version (version 0, an absent file, has none)
FileSizes == <<100, 79, 81, 50>>

Content == 0..Len(FileSizes)

SizeOf(c) == IF c = 0 THEN 0 ELSE FileSizes[c]

EmptyTree == [f \in Paths |-> 0]

TreeOf(r, id) == IF id = 0 THEN EmptyTree ELSE r.commits[id].tree

HeadTree(r) == TreeOf(r, r.localHead)

RECURSIVE Ancestors(_, _)
\* the commits reachable from commit id, itself included
Ancestors(r, id) ==
  IF id = 0 THEN {} ELSE {id} \cup Ancestors(r, r.commits[id].parent)

IsAncestor(r, a, b) == a = 0 \/ a \in Ancestors(r, b)

RECURSIVE LastChange(_, _, _)
\* the latest commit in the history of commit id that changed path f, 0 if
\* there is none
LastChange(r, id, f) ==
  IF id = 0 THEN 0
  ELSE IF r.commits[id].tree[f] # TreeOf(r, r.commits[id].parent)[f] THEN id
  ELSE LastChange(r, r.commits[id].parent, f)

\* git log --max-count=1 -- f, run on the history of commit id: the date of
\* the latest commit, 0 standing for no commit found
LogLatestDate(r, id, f) ==
  IF LastChange(r, id, f) = 0 THEN 0 ELSE r.commits[LastChange(r, id, f)].time

\* the time a commit created in the run carries: the latest of the time line
CommitNow == MaxTime

SetMax(S) == CHOOSE x \in S : \A y \in S : y <= x

\* the merge base of two commits (histories are chains; a child is created
\* after its parent, so the latest common ancestor has the largest index)
MergeBase(r, a, b) ==
  LET common == Ancestors(r, a) \cap Ancestors(r, b)
  IN  IF common = {} THEN 0 ELSE SetMax(common)

\* paths git tracks: present in the index or in HEAD
Tracked(r) == {f \in Paths : r.index[f] # 0 \/ HeadTree(r)[f] # 0}

\* simple-git status().files : every path that differs between HEAD, index
\* and working tree, untracked and conflicted paths included
StatusFiles(r) ==
  {f \in Paths : r.wt[f] # r.index[f] \/ r.index[f] # HeadTree(r)[f]}
    \cup r.conflicted

\* what git stash would save: changes to tracked paths
TrackedChanges(r) ==
  {f \in Tracked(r) : r.wt[f] # HeadTree(r)[f] \/ r.index[f] # HeadTree(r)[f]}

\* a git primitive's outcome: whether it succeeded, the repository after it,
\* and the markers of the handled substrings its error message contains
Ok(r) == [ok |-> TRUE, repo |-> r, msg |-> {}]

Fail(r, msg) == [ok |-> FALSE, repo |-> r, msg |-> msg]

(***************************************************************************)
(* Error messages, as the sets of the substrings the code looks for that   *)
(* they contain (GitService.ts:603, :613-621).                             *)
(***************************************************************************)
MsgNoRemoteRef == {"couldn't find remote ref"}
MsgRebaseConflict == {"CONFLICT", "conflict"}
MsgUnresolved == {"Exiting", "unresolved", "conflict"}
MsgIndexLock == {"index.lock"}
MsgNetwork == {"unable to access"}
MsgUnstaged == {"unstaged changes"}
MsgUntracked == {"untracked working tree files"}
MsgNoStash == {"No stash entries found"}
MsgNothingToCommit == {"nothing to commit"}
MsgNoRef == {"unknown revision"}

(***************************************************************************)
(* The git primitives the code issues.                                     *)
(***************************************************************************)
\* git stash push -m antigravity-sync-temp
GitStashPush(r) ==
  IF r.lock THEN Fail(r, MsgIndexLock)
  ELSE IF r.conflicted # {} THEN Fail(r, MsgUnresolved)
  ELSE IF TrackedChanges(r) = {} THEN Ok(r)   \* "No local changes to save"
  ELSE Ok([r EXCEPT
         !.stash = <<[wt |-> [f \in Paths |->
                                IF f \in Tracked(r) THEN r.wt[f]
                                ELSE HeadTree(r)[f]],
                      base |-> HeadTree(r)]>> \o @,
         !.wt = [f \in Paths |-> IF f \in Tracked(r) THEN HeadTree(r)[f]
                                 ELSE r.wt[f]],
         !.index = HeadTree(r)])

\* the paths a stash entry changes, and those on which applying it conflicts
\* with what HEAD holds now
StashChanged(e) == {f \in Paths : e.wt[f] # e.base[f]}

StashConflicts(r, e) ==
  {f \in StashChanged(e) : HeadTree(r)[f] # e.base[f] /\ HeadTree(r)[f] # e.wt[f]}

\* git stash pop
GitStashPop(r) ==
  IF r.stash = <<>> THEN Fail(r, MsgNoStash)
  ELSE IF r.lock THEN Fail(r, MsgIndexLock)
  ELSE IF r.conflicted # {} THEN Fail(r, MsgUnresolved)
  ELSE
    LET e == Head(r.stash)
        applied == [f \in Paths |->
                      IF f \in StashChanged(e) \ StashConflicts(r, e)
                        THEN e.wt[f] ELSE r.wt[f]]
    IN  IF \E f \in StashChanged(e) : r.wt[f] # HeadTree(r)[f]
          THEN Fail(r, MsgUntracked)        \* would overwrite local files
        ELSE IF StashConflicts(r, e) # {}
          \* the entry is kept, the conflicting paths are left unmerged
          THEN Fail([r EXCEPT !.wt = applied,
                              !.conflicted = StashConflicts(r, e)],
                    MsgRebaseConflict)
        ELSE Ok([r EXCEPT !.wt = applied, !.stash = Tail(@)])

\* git rebase --abort
GitRebaseAbort(r) ==
  IF r.inProgress # "rebase" THEN Fail(r, {"No rebase in progress"})
  ELSE IF r.lock THEN Fail(r, MsgIndexLock)
  ELSE Ok([r EXCEPT !.inProgress = "none", !.conflicted = {},
                    !.localHead = r.origHead,
                    !.index = TreeOf(r, r.origHead),
                    !.wt = [f \in Paths |->
                              IF f \in Tracked(r) \/ TreeOf(r, r.origHead)[f] # 0
                                THEN TreeOf(r, r.origHead)[f] ELSE r.wt[f]]])

\* git merge --abort
GitMergeAbort(r) ==
  IF r.inProgress # "merge" THEN Fail(r, {"There is no merge to abort"})
  ELSE IF r.lock THEN Fail(r, MsgIndexLock)
  ELSE Ok([r EXCEPT !.inProgress = "none", !.conflicted = {},
                    !.index = HeadTree(r),
                    !.wt = [f \in Paths |-> IF f \in Tracked(r)
                                              THEN HeadTree(r)[f] ELSE r.wt[f]]])

\* git reset --hard HEAD
GitResetHard(r) ==
  IF r.lock THEN Fail(r, MsgIndexLock)
  ELSE Ok([r EXCEPT
         !.index = HeadTree(r),
         !.conflicted = {},
         !.inProgress = IF @ = "merge" THEN "none" ELSE @,
         !.wt = [f \in Paths |-> IF f \in Tracked(r) THEN HeadTree(r)[f]
                                 ELSE r.wt[f]]])

\* git fetch origin
GitFetch(r, net) ==
  IF ~net THEN Fail(r, MsgNetwork)
  ELSE Ok([r EXCEPT !.originHead = r.remoteHead])

\* git diff --name-only HEAD origin/main
GitDiffNames(r) ==
  IF r.originHead = 0 \/ r.localHead = 0 THEN [ok |-> FALSE, files |-> {}]
  ELSE [ok |-> TRUE,
        files |-> {f \in Paths : HeadTree(r)[f] # TreeOf(r, r.originHead)[f]}]

\* git checkout origin/main -- file
GitCheckoutRemote(r, file) ==
  IF r.lock THEN Fail(r, MsgIndexLock)
  ELSE IF TreeOf(r, r.originHead)[file] = 0 THEN Fail(r, {"did not match"})
  ELSE Ok([r EXCEPT !.wt[file] = TreeOf(r, r.originHead)[file],
                    !.index[file] = TreeOf(r, r.originHead)[file],
                    !.conflicted = @ \ {file}])

\* git add -A
GitAddAll(r) ==
  IF r.lock THEN Fail(r, MsgIndexLock)
  ELSE Ok([r EXCEPT !.index = r.wt, !.conflicted = {}])

\* git commit -m message
GitCommit(r) ==
  IF r.lock THEN Fail(r, MsgIndexLock)
  ELSE IF r.conflicted # {} THEN Fail(r, MsgUnresolved)
  ELSE IF r.index = HeadTree(r) THEN Fail(r, MsgNothingToCommit)
  ELSE Ok([r EXCEPT
         !.commits = Append(@, [tree |-> r.index, parent |-> r.localHead,
                                time |-> CommitNow]),
         !.localHead = Len(r.commits) + 1])

\* git push origin main --force
GitPushForceMut(r, net) ==
  IF ~net THEN Fail(r, MsgNetwork)
  ELSE Ok([r EXCEPT !.originHead = r.localHead])

GitPushForce(r, net) ==
  IF ~net THEN Fail(r, MsgNetwork)
  ELSE IF r.localHead = 0 THEN Fail(r, {"src refspec main does not match any"})
  ELSE Ok([r EXCEPT !.remoteHead = r.localHead, !.originHead = r.localHead])

\* git push origin main --set-upstream
GitPush(r, net) ==
  IF ~net THEN Fail(r, MsgNetwork)
  ELSE IF r.localHead = 0 THEN Fail(r, {"src refspec main does not match any"})
  ELSE IF ~IsAncestor(r, r.remoteHead, r.localHead)
    THEN Fail(r, {"rejected", "non-fast-forward"})
  ELSE Ok([r EXCEPT !.remoteHead = r.localHead, !.originHead = r.localHead])

MsgRebaseDir == {"rebase-merge directory"}

\* the three-way merge of a rebase of HEAD onto the remote tip
RebaseConflicts(r) ==
  LET B == TreeOf(r, MergeBase(r, r.localHead, r.remoteHead))
      L == HeadTree(r)
      R == TreeOf(r, r.remoteHead)
  IN  {f \in Paths : L[f] # B[f] /\ R[f] # B[f] /\ L[f] # R[f]}

RebaseMerged(r) ==
  LET B == TreeOf(r, MergeBase(r, r.localHead, r.remoteHead))
      L == HeadTree(r)
      R == TreeOf(r, r.remoteHead)
  IN  [f \in Paths |-> IF L[f] # B[f] THEN L[f] ELSE R[f]]

\* an untracked file the checkout of tree T would overwrite
UntrackedInTheWay(r, T) ==
  \E f \in Paths \ Tracked(r) : r.wt[f] # 0 /\ T[f] # 0 /\ r.wt[f] # T[f]

\* the working tree after a checkout of tree T: untracked files are kept
CheckedOut(r, T) ==
  [f \in Paths |-> IF f \in Tracked(r) \/ T[f] # 0 THEN T[f] ELSE r.wt[f]]

\* git pull origin main --rebase=true; net is the state of the network
GitPullRebase(r, net) ==
  IF r.conflicted # {} THEN Fail(r, MsgUnresolved)
  ELSE IF TrackedChanges(r) # {} THEN Fail(r, MsgUnstaged)
  ELSE IF net # "ok" THEN Fail(r, MsgNetwork)
  ELSE IF r.remoteHead = 0 THEN Fail(r, MsgNoRemoteRef)
  ELSE
    LET r1 == [r EXCEPT !.originHead = r.remoteHead]
        R  == TreeOf(r, r.remoteHead)
        M  == RebaseMerged(r)
    IN  IF r.inProgress = "rebase" THEN Fail(r1, MsgRebaseDir)
        ELSE IF IsAncestor(r, r.remoteHead, r.localHead) THEN Ok(r1)
        ELSE IF r.lock THEN Fail(r1, MsgIndexLock)
        ELSE IF IsAncestor(r, r.localHead, r.remoteHead)
          \* fast-forward
          THEN IF UntrackedInTheWay(r, R) THEN Fail(r1, MsgUntracked)
               ELSE Ok([r1 EXCEPT !.localHead = r.remoteHead, !.index = R,
                                  !.wt = CheckedOut(r, R)])
        \* the local commits are replayed onto the remote tip
        ELSE IF UntrackedInTheWay(r, R) THEN Fail(r1, MsgUntracked)
        ELSE IF RebaseConflicts(r) # {}
          THEN Fail([r1 EXCEPT !.inProgress = "rebase",
                               !.origHead = r.localHead,
                               !.localHead = r.remoteHead,
                               !.conflicted = RebaseConflicts(r),
                               !.index = [f \in Paths |->
                                  IF f \in RebaseConflicts(r) THEN R[f] ELSE M[f]],
                               !.wt = CheckedOut(r, [f \in Paths |->
                                  IF f \in RebaseConflicts(r) THEN R[f] ELSE M[f]])],
                    MsgRebaseConflict)
        ELSE IF M = R
          THEN Ok([r1 EXCEPT !.localHead = r.remoteHead, !.index = R,
                             !.wt = CheckedOut(r, R)])
        ELSE Ok([r1 EXCEPT
               \* the replayed commit keeps its author date
               !.commits = Append(@, [tree |-> M, parent |-> r.remoteHead,
                                      time |-> r.commits[r.localHead].time]),
               !.localHead = Len(r.commits) + 1,
               !.index = M,
               !.wt = CheckedOut(r, M)])

\* the states of the network a remote operation may meet
NetStates == {"ok", "down"}

(***************************************************************************)
(* The classification of a failed pull --rebase by its message.            *)
(***************************************************************************)
\* gitError.message?.includes("couldn't find remote ref")  GitService.ts:603
IsEmptyRemoteMut(msg) == FALSE

IsEmptyRemote(msg) == "couldn't find remote ref" \in msg

\* GitService.ts:613-621
DivergencePatterns ==
  {"divergent", "reconcile", "CONFLICT", "conflict", "Exiting", "unresolved",
   "needs merge", "could not write index", "index.lock"}

IsDivergence(msg) == msg \cap DivergencePatterns # {}

(***************************************************************************)
(* The callers.  proc[p] holds where the operation of caller p stands      *)
(* (pc names the awaited primitive) and the locals of the functions on its *)
(* stack.  JavaScript runs each handler to its next await without          *)
(* interleaving, and simple-git runs one git process at a time, so an      *)
(* action is the completion of the awaited primitive together with the     *)
(* code that follows it up to the next await.                              *)
(***************************************************************************)
NoStart == [wt |-> EmptyTree, head |-> EmptyTree, localHead |-> 0,
            remoteHead |-> 0, stashLen |-> 0, conflicted |-> {}]

IdleProc ==
  [pc |-> "idle",           \* the awaited primitive, "idle" between calls
   op |-> "none",           \* the operation called: gitPull, pull, push, sync
   hasChanges |-> FALSE,    \* GitService.pull: hasChanges
   hasStash |-> FALSE,      \* handleSmartMerge: hasStash
   binaryFiles |-> <<>>,    \* handleSmartMerge: the binary files still to resolve
   localSize |-> 0,         \* handleSmartMerge: localSize
   localExists |-> FALSE,   \* handleSmartMerge: localExists
   remoteSize |-> 0,        \* handleSmartMerge: remoteSize
   err |-> {},              \* GitService.pull: the caught gitError's message
   ops |-> <<>>,            \* the git primitives and copies issued by this call
   reports |-> <<>>,        \* the states this call gave to the status bar
   ret |-> "none",          \* how the last call ended: ok, skipped, error
   retMsg |-> {},           \* the message of the error it threw
   start |-> NoStart,       \* the repository when GitService.pull was entered
   byTimer |-> FALSE,       \* the call was made by the auto-sync timer
   handle |-> NoHandle,     \* the GitService instance running the awaited git command
   url |-> ""]              \* the repository URL a configuration handler was given

\* a finished call: its locals are dropped, what it did and the error its
\* pull --rebase met are remembered
Finished(pr, ret, msg) ==
  [IdleProc EXCEPT !.op = pr.op, !.ops = pr.ops, !.reports = pr.reports,
                   !.ret = ret, !.retMsg = msg, !.start = pr.start,
                   !.err = pr.err, !.byTimer = pr.byTimer, !.url = pr.url]

PathOrder == <<"a.png", "n.txt">>

\* the members of a set of paths in the order git lists them
SortedPaths(S) == SelectSeq(PathOrder, LAMBDA f : f \in S)

MsgNotInitialized == {"Sync not initialized"}

\* a copy that mirrors the source directory, its missing paths included
CopyToSyncRepoMut(wt, src) == [f \in Paths |-> src[f]]

\* SyncService.copyFilesToSyncRepo, part_004:294-309 : every syncable file
\* that exists in the source directory is copied into the working directory
CopyToSyncRepo(wt, src) == [f \in Paths |-> IF src[f] # 0 THEN src[f] ELSE wt[f]]

\* SyncService.copyFilesFromSyncRepo, part_004:318-363 : every file of the
\* working directory is copied into the source directory
CopyFromSyncRepo(src, wt) == [f \in Paths |-> IF wt[f] # 0 THEN wt[f] ELSE src[f]]

(***************************************************************************)
(* The auto-sync timer of SyncService (part_004:384-432).  The clock is    *)
(* Date.now(); it moves in steps of TimeStep milliseconds up to MaxNow, and *)
(* an interval timer runs its callback at its due time or up to MaxLate     *)
(* milliseconds after it, as a busy event loop makes it.                    *)
(***************************************************************************)
\* the milliseconds the clock moves at a time
TimeStep == 500

\* the clock stops at MaxNow
MaxNow == 6000

\* how long after its due time a timer callback may run
MaxLate == 500

\* the auto-sync interval in seconds: 5 * 60 in part_004:27, shortened here
IntervalSeconds == 2

\* part_004:391, :431 : the divisor of "/ 1000"
MsPerSecond == 1000

\* part_004:395 : the period of the countdown ticker
CountdownPeriodMs == 1000

\* part_004:27
AUTO_SYNC_INTERVAL_MS == IntervalSeconds * MsPerSecond

\* a timer handle: null, or an interval timer and the time it is due next
NoTimer == [set |-> FALSE, due |-> 0]

\* the auto-sync fields after construction (part_004:36-41), and the last
\* value given to the countdown callback with the code that gave it
AutoOff ==
  [autoSyncTimer |-> NoTimer,
   countdownInterval |-> NoTimer,
   nextSyncTime |-> 0,
   countdownCallback |-> FALSE,
   countdown |-> [value |-> 0, by |-> "none"]]

\* Math.max
Max(a, b) == IF a >= b THEN a ELSE b

\* Math.ceil(a / b) for integers a and b > 0
CeilDivMut(a, b) == a \div b

CeilDiv(a, b) == -((-a) \div b)

\* part_004:391 and :431 : the seconds left until nextSyncTime at time t
SecondsLeft(nextSyncTime, t) == Max(0, CeilDiv(nextSyncTime - t, MsPerSecond))

\* part_004:368-370 : the callback is given a value, if there is a callback
Emits(a, value, by) ==
  IF a.countdownCallback
    THEN [a EXCEPT !.countdown = [value |-> value, by |-> by]]
    ELSE a

\* SyncService.stopAutoSync, part_004:411-424
StoppedMut(a) == Emits([a EXCEPT !.autoSyncTimer = NoTimer, !.nextSyncTime = 0], 0, "stop")

Stopped(a) ==
  Emits([a EXCEPT !.autoSyncTimer = NoTimer,
                  !.countdownInterval = NoTimer,
                  !.nextSyncTime = 0], 0, "stop")

\* SyncService.startAutoSync, part_004:384-406
Started(a, t) ==
  [Stopped(a) EXCEPT !.nextSyncTime = t + AUTO_SYNC_INTERVAL_MS,
                     !.countdownInterval = [set |-> TRUE, due |-> t + CountdownPeriodMs],
                     !.autoSyncTimer = [set |-> TRUE, due |-> t + AUTO_SYNC_INTERVAL_MS]]

\* part_004:399-400 : the timer's await this.sync() resolved
SyncResolved(a, t) == [a EXCEPT !.nextSyncTime = t + AUTO_SYNC_INTERVAL_MS]

\* a timer whose callback is to run now
Due(timer) == timer.set /\ now >= timer.due

\* what the timer actions leave alone
TimerOnly ==
  UNCHANGED <<rIn, rOut, repo, proc, isSyncing, statusBar, gitService, source, nCalls,
              config>>

\* SyncService.setCountdownCallback, part_004:368-370
SetCountdownCallback ==
  /\ ~auto.countdownCallback
  /\ auto' = [auto EXCEPT !.countdownCallback = TRUE]
  /\ UNCHANGED now
  /\ TimerOnly

StartAutoSync ==
  /\ auto' = Started(auto, now)
  /\ UNCHANGED now
  /\ TimerOnly

StopAutoSync ==
  /\ auto' = Stopped(auto)
  /\ UNCHANGED now
  /\ TimerOnly

\* part_004:390-395 : the countdown ticker runs
CountdownTick ==
  /\ Due(auto.countdownInterval)
  /\ auto' = Emits([auto EXCEPT !.countdownInterval.due = now + CountdownPeriodMs],
                   SecondsLeft(auto.nextSyncTime, now), "ticker")
  /\ UNCHANGED now
  /\ TimerOnly

\* the clock moves on, no timer being kept waiting longer than MaxLate
ClockAdvances ==
  /\ now + TimeStep <= MaxNow
  /\ \A timer \in {auto.autoSyncTimer, auto.countdownInterval} :
       timer.set => now + TimeStep <= timer.due + MaxLate
  /\ now' = now + TimeStep
  /\ UNCHANGED auto
  /\ TimerOnly

(***************************************************************************)
(* How an operation ends: the catch and finally blocks of SyncService.     *)
(***************************************************************************)
\* part_004:109, :156, :212 : the state a catch block reports
CatchStateMut == "Synced"

CatchState == "Error"

\* part_004:111-113 : sync's finally block, this.isSyncing = false
ReleasedMut(flag) == flag

Released(flag) == FALSE

\* the operation of caller p throws msg out of its push steps or its pull
\* (part_004:107-113, :154-158, :210-214)
Throws(p, pr, r, msg) ==
  /\ repo' = r
  /\ UNCHANGED <<gitService, source, now, auto, config>>
  /\ CASE pr.op = "gitPull" ->
            /\ proc' = [proc EXCEPT ![p] = Finished(pr, "error", msg)]
            /\ UNCHANGED <<isSyncing, statusBar>>
       [] pr.op \in {"pull", "push"} ->
            /\ proc' = [proc EXCEPT ![p] =
                 Finished([pr EXCEPT !.reports = Append(@, CatchState)], "error", msg)]
            /\ statusBar' = CatchState
            /\ UNCHANGED isSyncing
       [] pr.op = "sync" ->
            /\ proc' = [proc EXCEPT ![p] =
                 Finished([pr EXCEPT !.reports = Append(@, CatchState)], "error", msg)]
            /\ statusBar' = CatchState
            /\ isSyncing' = Released(isSyncing)

\* the push steps completed (part_004:152-153, :105-112)
PushCompletes(p, pr, r) ==
  /\ repo' = r
  /\ UNCHANGED <<gitService, source, now, config>>
  /\ auto' = IF pr.op = "sync" /\ pr.byTimer THEN SyncResolved(auto, now) ELSE auto
  /\ proc' = [proc EXCEPT ![p] =
       Finished([pr EXCEPT !.reports = Append(@, "Synced")], "ok", {})]
  /\ statusBar' = "Synced"
  /\ isSyncing' = IF pr.op = "sync" THEN Released(isSyncing) ELSE isSyncing

\* GitService.pull returns to its caller, which goes on:
\*   gitPull : the call is over
\*   pull    : part_004:204-209, copy back and report Synced
\*   sync    : the same, then pushWithoutPull up to its first await
\*   push    : part_004:132-134, up to the await in copyFilesToSyncRepo
PullReturns(p, pr, r) ==
  /\ UNCHANGED <<timerVars, config>>
  /\ CASE pr.op = "gitPull" ->
            /\ repo' = r
            /\ proc' = [proc EXCEPT ![p] = Finished(pr, "ok", {})]
            /\ UNCHANGED orchVars
       [] pr.op = "pull" ->
            /\ repo' = r
            /\ source' = CopyFromSyncRepo(source, r.wt)
            /\ statusBar' = "Synced"
            /\ proc' = [proc EXCEPT ![p] =
                 Finished([pr EXCEPT !.ops = Append(@, "copyFrom"),
                                     !.reports = Append(@, "Synced")], "ok", {})]
            /\ UNCHANGED <<isSyncing, gitService>>
       [] pr.op = "sync" ->
            /\ repo' = r
            /\ source' = CopyFromSyncRepo(source, r.wt)
            /\ statusBar' = "Synced"
            /\ proc' = [proc EXCEPT ![p] =
                 [pr EXCEPT !.ops = Append(@, "copyFrom"),
                            !.reports = Append(@, "Synced"),
                            !.hasChanges = FALSE, !.hasStash = FALSE,
                            !.pc = "ps_copy"]]
            /\ UNCHANGED <<isSyncing, gitService>>
       [] pr.op = "push" ->
            /\ repo' = r
            /\ proc' = [proc EXCEPT ![p] =
                 [pr EXCEPT !.hasChanges = FALSE, !.hasStash = FALSE,
                            !.pc = "ps_copy"]]
            /\ UNCHANGED orchVars

\* part_004:210-214 and :107-113 : the pull phase of sync throws
SyncPullThrowsMut(p, pr, r, msg) == PullReturns(p, pr, r)

\* the pull phase of sync throws: SyncService.pull's catch reports Error,
\* then sync's catch reports it again and its finally clears the flag
SyncPullThrows(p, pr, r, msg) ==
  Throws(p, [pr EXCEPT !.reports = Append(@, CatchState)], r, msg)

\* GitService.pull throws msg to its caller
PullThrows(p, pr, r, msg) ==
  IF pr.op = "sync" THEN SyncPullThrows(p, pr, r, msg) ELSE Throws(p, pr, r, msg)

\* a step inside an operation: only the caller's locals and the repository change
Goes(p, pr, r) ==
  /\ repo' = r
  /\ proc' = [proc EXCEPT ![p] = pr]
  /\ UNCHANGED orchVars
  /\ UNCHANGED <<timerVars, config>>

\* the locals after primitive `name` was issued, the next one awaited being pc
\* (stageAll, commit and push are called on the GitService that
\* SyncService.gitService holds at the call, part_004:138-146)
After(pr, name, pc) ==
  [pr EXCEPT !.ops = Append(@, name), !.pc = pc,
             !.handle = IF pc \in {"ps_add", "ps_status", "ps_push"}
                          THEN gitService ELSE @]

\* what the steps of an operation leave alone
Internal == UNCHANGED <<rIn, rOut, nCalls>>

(***************************************************************************)
(* GitService.pull (GitService.ts:570-642).                                *)
(***************************************************************************)
\* the caller's locals on entry to GitService.pull, git.status() awaited
EnterGitPull(pr, r) ==
  [pr EXCEPT !.pc = "gp_status",
             !.handle = gitService,
             !.start = [wt |-> r.wt, head |-> HeadTree(r),
                        localHead |-> r.localHead, remoteHead |-> r.remoteHead,
                        stashLen |-> Len(r.stash), conflicted |-> r.conflicted]]

\* :582 : pre-existing conflicts route to the recovery merge
RoutesToSmartMergeMut(r) == FALSE

RoutesToSmartMerge(r) == r.conflicted # {}

\* :574-591 : the initial status; conflicts go straight to the recovery
\* merge with hasStash = false, changes are stashed, else the pull is tried
GpStatus(p) ==
  /\ proc[p].pc = "gp_status"
  /\ LET hasChanges == StatusFiles(repo) # {}
         pr == [proc[p] EXCEPT !.hasChanges = hasChanges, !.hasStash = FALSE]
     IN  Goes(p, After(pr, "status",
                       IF RoutesToSmartMerge(repo) THEN "sm_rebaseAbort"
                       ELSE IF hasChanges THEN "gp_stashPush"
                       ELSE "gp_pullRebase"),
              repo)
  /\ Internal

\* :590 : git stash push; a failure is thrown to the caller
GpStashPush(p) ==
  /\ proc[p].pc = "gp_stashPush"
  /\ LET res == GitStashPush(repo)
         pr == After(proc[p], "stash push", "gp_pullRebase")
     IN  IF res.ok THEN Goes(p, pr, res.repo)
         ELSE PullThrows(p, pr, res.repo, res.msg)
  /\ Internal

\* :603-610 : the pop of the stash, on each of the three paths that pop it
PopsStashMut(pr) == FALSE

PopsStash(pr) == pr.hasChanges

\* :624 : handleSmartMerge(hasChanges), the recovery merge is told whether
\* this pull issued the stash push
hasStashOfMut(pr) == FALSE

hasStashOf(pr) == pr.hasChanges

\* :593-638 : git pull --rebase and the classification of its failure
GpPullRebase(p) ==
  /\ proc[p].pc = "gp_pullRebase"
  /\ \E net \in NetStates :
       LET res == GitPullRebase(repo, net)
           pr == [After(proc[p], "pull --rebase", "gp_pullRebase")
                    EXCEPT !.err = res.msg]
       IN  IF res.ok
             THEN IF PopsStash(pr)
                    THEN Goes(p, [pr EXCEPT !.pc = "gp_popAfterPull"], res.repo)
                    ELSE PullReturns(p, pr, res.repo)
           ELSE IF IsEmptyRemote(res.msg)
             THEN IF PopsStash(pr)
                    THEN Goes(p, [pr EXCEPT !.pc = "gp_popEmptyRepo"], res.repo)
                    ELSE PullReturns(p, pr, res.repo)
           ELSE IF IsDivergence(res.msg)
             THEN Goes(p, [pr EXCEPT !.pc = "sm_rebaseAbort",
                                     !.hasStash = hasStashOf(pr)], res.repo)
           ELSE IF PopsStash(pr)
             THEN Goes(p, [pr EXCEPT !.pc = "gp_popBeforeThrow"], res.repo)
             ELSE PullThrows(p, pr, res.repo, res.msg)
  /\ Internal

\* :607, :631, :637 and :471 : git.stash(['pop']).catch(...), the promise of
\* a primitive with a catch that returns: it resolves whatever the primitive did
CaughtMut(res) == res

Caught(res) == [res EXCEPT !.ok = TRUE]

\* :607 : stash pop on an empty remote, its failure swallowed
GpPopEmptyRepo(p) ==
  /\ proc[p].pc = "gp_popEmptyRepo"
  /\ LET res == Caught(GitStashPop(repo))
         pr == After(proc[p], "stash pop", "idle")
     IN  IF res.ok THEN PullReturns(p, pr, res.repo)
         ELSE PullThrows(p, pr, res.repo, res.msg)
  /\ Internal

\* :630-632 : stash pop before the error is thrown again
GpPopBeforeThrow(p) ==
  /\ proc[p].pc = "gp_popBeforeThrow"
  /\ LET res == Caught(GitStashPop(repo))
         pr == After(proc[p], "stash pop", "idle")
     IN  PullThrows(p, pr, res.repo, IF res.ok THEN proc[p].err ELSE res.msg)
  /\ Internal

\* :636-638 : stash pop after a successful pull
GpPopAfterPull(p) ==
  /\ proc[p].pc = "gp_popAfterPull"
  /\ LET res == Caught(GitStashPop(repo))
         pr == After(proc[p], "stash pop", "idle")
     IN  IF res.ok THEN PullReturns(p, pr, res.repo)
         ELSE PullThrows(p, pr, res.repo, res.msg)
  /\ Internal

(***************************************************************************)
(* GitService.handleSmartMerge (GitService.ts:456-565).                    *)
(***************************************************************************)
\* :461 : git rebase --abort, its failure turned into a log line
SmRebaseAbort(p) ==
  /\ proc[p].pc = "sm_rebaseAbort"
  /\ Goes(p, After(proc[p], "rebase --abort", "sm_mergeAbort"),
          GitRebaseAbort(repo).repo)
  /\ Internal

\* GitService.cleanupIndexLock, :718-723
cleanupIndexLock(r) == [r EXCEPT !.lock = FALSE]

\* :463-477 : git merge --abort, then the lock file is removed and the
\* stash pop or the hard reset is issued
SmMergeAbort(p) ==
  /\ proc[p].pc = "sm_mergeAbort"
  /\ Goes(p, After(proc[p], "merge --abort",
                   IF proc[p].hasStash THEN "sm_stashPop" ELSE "sm_reset"),
          cleanupIndexLock(GitMergeAbort(repo).repo))
  /\ Internal

\* :471 : git stash pop, its failure turned into a log line
SmStashPop(p) ==
  /\ proc[p].pc = "sm_stashPop"
  /\ LET res == Caught(GitStashPop(repo))
     IN  IF res.ok THEN Goes(p, After(proc[p], "stash pop", "sm_reset"), res.repo)
         ELSE PullThrows(p, After(proc[p], "stash pop", "idle"), res.repo, res.msg)
  /\ Internal

\* :477 : git reset --hard HEAD, its failure logged
SmReset(p) ==
  /\ proc[p].pc = "sm_reset"
  /\ Goes(p, After(proc[p], "reset --hard", "sm_fetch"), GitResetHard(repo).repo)
  /\ Internal

\* :481 : git fetch origin; nothing catches its failure
SmFetch(p) ==
  /\ proc[p].pc = "sm_fetch"
  /\ \E net \in NetStates :
       LET res == GitFetch(repo, net = "ok")
           pr == After(proc[p], "fetch", "sm_diff")
       IN  IF res.ok THEN Goes(p, pr, res.repo)
           ELSE PullThrows(p, pr, res.repo, res.msg)
  /\ Internal

\* :502-509 : the loop head: the next binary file's size is read from disk,
\* and git show is issued; after the last file git add -A is issued
LoopHead(pr, r, files) ==
  IF files = <<>>
    THEN [pr EXCEPT !.binaryFiles = <<>>, !.pc = "sm_add",
                    !.localSize = 0, !.localExists = FALSE, !.remoteSize = 0]
    ELSE [pr EXCEPT !.binaryFiles = files, !.pc = "sm_show",
                    !.localExists = r.wt[Head(files)] # 0,
                    !.localSize = SizeOf(r.wt[Head(files)]),
                    !.remoteSize = 0]

\* :497 : the differing paths that end with a binary extension
binaryFilesOfMut(differingFiles) == differingFiles

binaryFilesOf(differingFiles) == differingFiles \cap binaryExtensionPaths

\* :488-498 : git diff --name-only HEAD origin/main; a failure leaves no file
SmDiff(p) ==
  /\ proc[p].pc = "sm_diff"
  /\ LET differingFiles == GitDiffNames(repo).files
         pr == After(proc[p], "diff", "sm_diff")
     IN  Goes(p, LoopHead(pr, repo, SortedPaths(binaryFilesOf(differingFiles))),
              repo)
  /\ Internal

\* :526-541 : the decision for the file at the head of binaryFiles, with the
\* timestamps the file system and the log gave; the remote version is
\* checked out when the remote wins
DecideMut(pr, r, localMtime, remoteSize, remoteMtime) ==
  IF ~InlineResolve(pr.localSize, localMtime, remoteSize, remoteMtime).keepLocal
    THEN LoopHead(pr, r, Tail(pr.binaryFiles))
    ELSE [pr EXCEPT !.pc = "sm_checkout"]

Decide(pr, r, localMtime, remoteSize, remoteMtime) ==
  IF InlineResolve(pr.localSize, localMtime, remoteSize, remoteMtime).keepLocal
    THEN LoopHead(pr, r, Tail(pr.binaryFiles))
    ELSE [pr EXCEPT !.pc = "sm_checkout"]

\* the modification time stat gives: that of the file, 0 when it is absent
LocalMtimes(pr) == IF pr.localExists THEN 0..MaxTime ELSE {0}

\* :515 : git show origin/main:file; when it fails the remote size and time
\* stay 0 and the decision is taken
SmShow(p) ==
  /\ proc[p].pc = "sm_show"
  /\ LET file == Head(proc[p].binaryFiles)
         c == TreeOf(repo, repo.originHead)[file]
         pr == After(proc[p], "show", "sm_log")
     IN  IF c # 0
           THEN Goes(p, [pr EXCEPT !.remoteSize = SizeOf(c)], repo)
           ELSE \E lt \in LocalMtimes(pr) : Goes(p, Decide(pr, repo, lt, 0, 0), repo)
  /\ Internal

\* :517 : git.log({ file, maxCount: 1 }) names no revision, so git reads the
\* history of HEAD
LogRevision(r) == r.localHead

\* :517-518 : git log -1 -- file; without a commit the remote time stays 0
SmLog(p) ==
  /\ proc[p].pc = "sm_log"
  /\ \E lt \in LocalMtimes(proc[p]) :
       Goes(p, Decide(After(proc[p], "log", "sm_log"), repo, lt,
                      proc[p].remoteSize,
                      LogLatestDate(repo, LogRevision(repo), Head(proc[p].binaryFiles))),
            repo)
  /\ Internal

\* :538 : git checkout origin/main -- file, its failure logged
SmCheckout(p) ==
  /\ proc[p].pc = "sm_checkout"
  /\ LET res == GitCheckoutRemote(repo, Head(proc[p].binaryFiles))
         pr == After(proc[p], "checkout", "sm_checkout")
     IN  Goes(p, LoopHead(pr, res.repo, Tail(pr.binaryFiles)), res.repo)
  /\ Internal

\* :550 : git add -A; nothing catches its failure
SmAdd(p) ==
  /\ proc[p].pc = "sm_add"
  /\ LET res == GitAddAll(repo)
         pr == After(proc[p], "add", "sm_status")
     IN  IF res.ok THEN Goes(p, pr, res.repo)
         ELSE PullThrows(p, pr, res.repo, res.msg)
  /\ Internal

\* :551 : git status, for the log line
SmStatus(p) ==
  /\ proc[p].pc = "sm_status"
  /\ Goes(p, After(proc[p], "status", "sm_commit"), repo)
  /\ Internal

\* :556 : git commit, its failure turned into a log line
SmCommit(p) ==
  /\ proc[p].pc = "sm_commit"
  /\ LET res == GitCommit(repo)
     IN  Goes(p, After(proc[p], IF res.ok THEN "commit" ELSE "commit failed",
                       "sm_push"), res.repo)
  /\ Internal

\* :561-564 : git push --force, its failure turned into a log line; the
\* recovery merge and the pull return
SmPushMut(p) ==
  /\ proc[p].pc = "sm_push"
  /\ \E net \in NetStates :
       LET res == GitPushForce(repo, net = "ok")
       IN  IF res.ok THEN PullReturns(p, After(proc[p], "push --force", "idle"),
                                      res.repo)
           ELSE Goes(p, After(proc[p], "push --force failed", "gp_status"), res.repo)
  /\ Internal

SmPush(p) ==
  /\ proc[p].pc = "sm_push"
  /\ \E net \in NetStates :
       LET res == GitPushForce(repo, net = "ok")
       IN  PullReturns(p, After(proc[p], IF res.ok THEN "push --force"
                                         ELSE "push --force failed", "idle"),
                       res.repo)
  /\ Internal

(***************************************************************************)
(* The push steps shared by SyncService.push (part_004:132-153) and        *)
(* SyncService.pushWithoutPull (part_004:169-187).                         *)
(***************************************************************************)
\* copyFilesToSyncRepo: getFilesToSync is awaited, then the files are copied
\* and git add -A is issued
PsCopy(p) ==
  /\ proc[p].pc = "ps_copy"
  /\ Goes(p, After(proc[p], "copyTo", "ps_add"),
          [repo EXCEPT !.wt = CopyToSyncRepo(repo.wt, source)])
  /\ Internal

\* GitService.stageAll, GitService.ts:359-361
PsAdd(p) ==
  /\ proc[p].pc = "ps_add"
  /\ LET res == GitAddAll(repo)
         pr == After(proc[p], "add", "ps_status")
     IN  IF res.ok THEN Goes(p, pr, res.repo)
         ELSE Throws(p, pr, res.repo, res.msg)
  /\ Internal

\* GitService.commit, GitService.ts:367-371 : a clean status gives no commit
\* id, and no push follows (part_004:144-150)
PsStatus(p) ==
  /\ proc[p].pc = "ps_status"
  /\ LET pr == After(proc[p], "status", "ps_commit")
     IN  IF StatusFiles(repo) = {} THEN PushCompletes(p, pr, repo)
         ELSE Goes(p, pr, repo)
  /\ Internal

\* part_004:144 : if (commitHash), the commit gave a commit id
commitHashMut(res) == res.ok \/ res.msg = MsgNothingToCommit

commitHash(res) == res.ok

\* GitService.commit, GitService.ts:373-374 : git commit; the push is issued
\* when it gave a commit id
PsCommit(p) ==
  /\ proc[p].pc = "ps_commit"
  /\ LET res == GitCommit(repo)
     IN  IF commitHash(res)
           THEN Goes(p, After(proc[p], IF res.ok THEN "commit" ELSE "commit failed",
                              "ps_push"), res.repo)
         ELSE IF res.msg = MsgNothingToCommit
           THEN PushCompletes(p, After(proc[p], "commit failed", "idle"), res.repo)
         ELSE Throws(p, After(proc[p], "commit failed", "idle"), res.repo, res.msg)
  /\ Internal

\* GitService.push, GitService.ts:380-383
PsPush(p) ==
  /\ proc[p].pc = "ps_push"
  /\ \E net \in NetStates :
       LET res == GitPush(repo, net = "ok")
       IN  IF res.ok THEN PushCompletes(p, After(proc[p], "push", "idle"), res.repo)
           ELSE Throws(p, After(proc[p], "push failed", "idle"), res.repo, res.msg)
  /\ Internal

(***************************************************************************)
(* The operations of SyncService, each up to its first await.              *)
(***************************************************************************)
\* the operations called in one run of the model
MaxCalls == 2

\* a call takes the first caller that has no operation in flight
Callable(p) ==
  /\ proc[p].pc = "idle"
  /\ \A q \in Procs : q < p => proc[q].pc # "idle"
  /\ nCalls < MaxCalls

Called(op) == [IdleProc EXCEPT !.op = op]

\* the callers when caller p starts an operation with locals pr: what is
\* remembered of the operations that ended before is dropped
Calls(p, pr) ==
  [q \in Procs |-> IF q = p THEN pr
                   ELSE IF proc[q].pc = "idle" THEN IdleProc ELSE proc[q]]

\* part_004:120, :194 : if (!this.gitService)
NotInitializedMut == FALSE

NotInitialized == gitService = NoHandle

\* part_004:87 : if (this.isSyncing) return
AlreadySyncingMut == FALSE

AlreadySyncing == isSyncing

\* SyncService.sync, part_004:86-99 with SyncService.pull, part_004:193-202,
\* called by the user or by the auto-sync timer; a is the auto-sync state at
\* the call, and a timer's call that returns at once resolves at once
SyncCall(p, byTimer, a) ==
  /\ nCalls' = nCalls + 1
  /\ UNCHANGED <<rIn, rOut, repo, gitService, source, now, config>>
  /\ IF AlreadySyncing
       THEN /\ proc' = Calls(p, Finished([Called("sync") EXCEPT !.byTimer = byTimer],
                                         "skipped", {}))
            /\ auto' = IF byTimer THEN SyncResolved(a, now) ELSE a
            /\ UNCHANGED <<isSyncing, statusBar>>
     ELSE IF NotInitialized
       \* pull throws before its try; sync's catch and finally run
       THEN /\ proc' = Calls(p,
                 Finished([Called("sync") EXCEPT !.reports = <<"Syncing", CatchState>>,
                                                 !.byTimer = byTimer],
                          "error", MsgNotInitialized))
            /\ auto' = a
            /\ statusBar' = CatchState
            /\ isSyncing' = Released(TRUE)
     ELSE /\ proc' = Calls(p,
               EnterGitPull([Called("sync") EXCEPT !.reports = <<"Syncing", "Pulling">>,
                                                   !.byTimer = byTimer],
                            repo))
          /\ auto' = a
          /\ statusBar' = "Pulling"
          /\ isSyncing' = TRUE

Sync(p) == Callable(p) /\ SyncCall(p, FALSE, auto)

\* part_004:397-405 : the auto-sync timer runs and calls sync
AutoSyncFires(p) ==
  /\ Due(auto.autoSyncTimer)
  /\ proc[p].pc = "idle"
  /\ \A q \in Procs : q < p => proc[q].pc # "idle"
  /\ SyncCall(p, TRUE, [auto EXCEPT !.autoSyncTimer.due = now + AUTO_SYNC_INTERVAL_MS])

\* part_004:87, :120, :194 : the operations that test the in-flight flag
\* when called; push() and pull() only test the handle
TestsInFlightFlagMut(op) == TRUE

TestsInFlightFlag(op) == op = "sync"

\* SyncService.push, part_004:119-130
Push(p) ==
  /\ Callable(p)
  /\ nCalls' = nCalls + 1
  /\ UNCHANGED <<rIn, rOut, repo, gitService, source, isSyncing, now, auto, config>>
  /\ IF NotInitialized
       THEN /\ proc' = Calls(p, Finished(Called("push"), "error", MsgNotInitialized))
            /\ UNCHANGED statusBar
     ELSE IF TestsInFlightFlag("push") /\ AlreadySyncing
       THEN /\ proc' = Calls(p, Finished(Called("push"), "skipped", {}))
            /\ UNCHANGED statusBar
       ELSE /\ proc' = Calls(p,
                 EnterGitPull([Called("push") EXCEPT !.reports = <<"Pushing">>], repo))
            /\ statusBar' = "Pushing"

\* SyncService.pull, part_004:193-202
Pull(p) ==
  /\ Callable(p)
  /\ nCalls' = nCalls + 1
  /\ UNCHANGED <<rIn, rOut, repo, gitService, source, isSyncing, now, auto, config>>
  /\ IF NotInitialized
       THEN /\ proc' = Calls(p, Finished(Called("pull"), "error", MsgNotInitialized))
            /\ UNCHANGED statusBar
     ELSE IF TestsInFlightFlag("pull") /\ AlreadySyncing
       THEN /\ proc' = Calls(p, Finished(Called("pull"), "skipped", {}))
            /\ UNCHANGED statusBar
       ELSE /\ proc' = Calls(p,
                 EnterGitPull([Called("pull") EXCEPT !.reports = <<"Pulling">>], repo))
            /\ statusBar' = "Pulling"

(***************************************************************************)
(* The settings and the credential store (ConfigService, part_003).        *)
(***************************************************************************)
\* the repositories a URL may name: one that answers git ls-remote without
\* authentication and one that does not
Urls == {"public", "private"}

\* part_003:34 : the default of the repositoryUrl setting, ''
NoUrl == ""

\* what getCredentials may give: undefined, or the stored password
Tokens == {"undefined", "", "token"}

\* part_003:36 : the default of the syncIntervalMinutes setting
DefaultSyncIntervalMinutes == 5

\* part_003:31-40 : the settings as installed, nothing stored for any URL
DefaultConfig ==
  [repositoryUrl |-> NoUrl,
   autoSync |-> TRUE,
   syncIntervalMinutes |-> DefaultSyncIntervalMinutes,
   credentials |-> [u \in Urls |-> "undefined"]]

\* the settings after a private repository was configured with its token
PrivateConfig ==
  [DefaultConfig EXCEPT !.repositoryUrl = "private",
                        !.credentials = [@ EXCEPT !["private"] = "token"]]

\* JavaScript's !x and !!x on a string or undefined
Truthy(x) == x \notin {"undefined", ""}

\* ConfigService.getCredentials, part_003:83-89 : the token, and whether the
\* credential store was asked for it
getCredentials(cfg) ==
  IF ~Truthy(cfg.repositoryUrl)
    THEN [token |-> "undefined", asked |-> FALSE]
    ELSE [token |-> cfg.credentials[cfg.repositoryUrl], asked |-> TRUE]

\* ConfigService.isConfigured, part_003:45-52
isConfiguredMut(cfg) ==
  [result |-> Truthy(cfg.repositoryUrl), asked |-> FALSE]

isConfigured(cfg) ==
  IF ~Truthy(cfg.repositoryUrl)
    THEN [result |-> FALSE, asked |-> FALSE]
    ELSE LET pat == getCredentials(cfg)
         IN  [result |-> Truthy(pat.token), asked |-> pat.asked]

\* part_004:61-63
MsgNotConfigured == {"Repository or access token not configured"}

\* part_004:80 : the state initialize() reports
InitializedStateMut == "Synced"

InitializedState == "Pending"

\* no operation is in flight
Quiescent == \A p \in Procs : proc[p].pc = "idle"

\* SyncService.initialize, part_004:57-81, on a working directory that is a
\* repository already: the services are created, the source files are
\* copied in and the status becomes Pending; without a repository URL or a
\* token it throws before anything is created
Initialize ==
  /\ gitService = NoHandle
  /\ Quiescent
  /\ UNCHANGED <<rIn, rOut, isSyncing, source, nCalls, now, auto, config>>
  /\ LET token == getCredentials(config).token IN
       IF config.repositoryUrl # NoUrl /\ Truthy(token)
         THEN /\ gitService' = gitService + 1
              /\ repo' = [repo EXCEPT !.wt = CopyToSyncRepo(repo.wt, source)]
              /\ statusBar' = InitializedState
              /\ proc' = Calls(1, Finished(
                   [Called("initialize") EXCEPT !.ops = <<"copyTo">>,
                                                !.reports = <<InitializedState>>],
                   "ok", {}))
         ELSE /\ proc' = Calls(1, Finished(Called("initialize"), "error",
                                            MsgNotConfigured))
              /\ UNCHANGED <<gitService, repo, statusBar>>

\* GitService.pull called on its own, GitService.ts:570-574
GitPullCall(p) ==
  /\ proc[p].pc = "idle"
  /\ proc[p].ret = "none"
  /\ proc' = [proc EXCEPT ![p] = EnterGitPull(Called("gitPull"), repo)]
  /\ nCalls' = nCalls + 1
  /\ UNCHANGED <<rIn, rOut, repo, isSyncing, statusBar, gitService, source, now, auto, config>>

(***************************************************************************)
(* The environment, acting between operations: the user edits the source   *)
(* directory, another machine pushes to the remote.                        *)
(***************************************************************************)
\* the file versions: that of the first commit, and those a local commit,
\* a commit of another machine and a user's edit write
Version == [base |-> 1, local |-> 2, remote |-> 3, edited |-> 4]

EditedVersion == Version.edited

RemoteVersion == Version.remote

\* the commits another machine may push in one run of the model
MaxRemoteCommits == 1

EditSource(f) ==
  /\ Quiescent
  /\ source[f] # EditedVersion
  /\ source' = [source EXCEPT ![f] = EditedVersion]
  /\ UNCHANGED <<rIn, rOut, repo, proc, isSyncing, statusBar, gitService, nCalls, now, auto, config>>

RemoteCommit(f) ==
  /\ Quiescent
  /\ repo.remoteHead # 0
  /\ repo.others < MaxRemoteCommits
  /\ repo' = [repo EXCEPT
       !.commits = Append(@, [tree |-> [TreeOf(repo, repo.remoteHead)
                                          EXCEPT ![f] = RemoteVersion],
                              parent |-> repo.remoteHead,
                              time |-> CommitNow]),
       !.remoteHead = Len(repo.commits) + 1,
       !.others = @ + 1]
  /\ UNCHANGED <<rIn, rOut, proc, isSyncing, statusBar, gitService, source, nCalls, now, auto, config>>

(***************************************************************************)
(* Initial states.                                                         *)
(***************************************************************************)
BaseTree == [f \in Paths |-> Version.base]

\* a clean clone of a remote that holds one commit
BaseRepo ==
  [commits |-> <<[tree |-> BaseTree, parent |-> 0, time |-> 0]>>,
   localHead |-> 1, originHead |-> 1, remoteHead |-> 1, origHead |-> 0,
   index |-> BaseTree, wt |-> BaseTree,
   conflicted |-> {}, inProgress |-> "none", lock |-> FALSE,
   stash |-> <<>>, others |-> 0]

\* the working directory initializeRepository leaves beside an empty remote
\* (GitService.ts:299-310): one local commit, nothing on the remote
FreshRepo == [BaseRepo EXCEPT !.remoteHead = 0, !.originHead = 0]

NoResolverRun ==
  /\ rIn = [localSize |-> 0, localMtime |-> 0, remoteSize |-> 0, remoteMtime |-> 0]
  /\ rOut = [inline |-> NoDecision, method |-> NoDecision]

\* SyncService after its constructor (part_004:33-51), beside a working
\* directory set up earlier, by a clone or beside an empty remote
\* the service after construction (part_004:33-52), nothing configured yet
Constructed ==
  /\ NoResolverRun
  /\ repo \in {BaseRepo, FreshRepo}
  /\ proc = [p \in Procs |-> IdleProc]
  /\ isSyncing = FALSE
  /\ statusBar = "None"
  /\ gitService = NoHandle
  /\ source = BaseTree
  /\ nCalls = 0
  /\ now = 0
  /\ auto = AutoOff

Init ==
  /\ Constructed
  /\ config \in {DefaultConfig, PrivateConfig}

Next ==
  \/ Initialize
  \/ \E f \in Paths : EditSource(f)
  \/ \E f \in Paths : RemoteCommit(f)
  \/ \E p \in Procs :
       \/ Sync(p) \/ Push(p) \/ Pull(p)
       \/ GpStatus(p) \/ GpStashPush(p) \/ GpPullRebase(p)
       \/ GpPopEmptyRepo(p) \/ GpPopBeforeThrow(p) \/ GpPopAfterPull(p)
       \/ SmRebaseAbort(p) \/ SmMergeAbort(p) \/ SmStashPop(p) \/ SmReset(p)
       \/ SmFetch(p) \/ SmDiff(p) \/ SmShow(p) \/ SmLog(p) \/ SmCheckout(p)
       \/ SmAdd(p) \/ SmStatus(p) \/ SmCommit(p) \/ SmPush(p)
       \/ PsCopy(p) \/ PsAdd(p) \/ PsStatus(p) \/ PsCommit(p) \/ PsPush(p)

Spec == Init /\ [][Next]_vars

(***************************************************************************)
(* The service with its auto-sync timer: the extension initializes it,     *)
(* registers the countdown callback, starts and stops the timer; the timer *)
(* calls sync and the ticker the callback while the clock moves on.        *)
(***************************************************************************)
NextTimer ==
  \/ Initialize
  \/ SetCountdownCallback
  \/ StartAutoSync
  \/ StopAutoSync
  \/ CountdownTick
  \/ ClockAdvances
  \/ \E f \in Paths : EditSource(f)
  \/ \E p \in Procs :
       \/ AutoSyncFires(p)
       \/ GpStatus(p) \/ GpStashPush(p) \/ GpPullRebase(p)
       \/ GpPopBeforeThrow(p) \/ GpPopAfterPull(p)
       \/ PsCopy(p) \/ PsAdd(p) \/ PsStatus(p) \/ PsCommit(p) \/ PsPush(p)

\* the remote has the commit the working directory was cloned from
InitTimer == Init /\ repo = BaseRepo

SpecTimer == InitTimer /\ [][NextTimer]_vars

(***************************************************************************)
(* initialize() called again on an initialized service, as the side panel  *)
(* does when the configuration is saved again (SidePanelProvider.ts:170):  *)
(* it creates a new GitService on the same path and runs git commands on   *)
(* it.  Each GitService runs one git process at a time                     *)
(* (maxConcurrentProcesses: 1, GitService.ts:28-35); two GitService        *)
(* instances do not know of each other.                                    *)
(***************************************************************************)
\* part_004:66-68 with GitService.initializeRepository, GitService.ts:266-273 :
\* the new GitService, and git status awaited on it
ReinitializeCall(p) ==
  /\ Callable(p)
  /\ gitService # NoHandle
  /\ nCalls' = nCalls + 1
  /\ gitService' = gitService + 1
  /\ proc' = Calls(p, [Called("initialize") EXCEPT !.pc = "in_status",
                                                   !.handle = gitService + 1])
  /\ UNCHANGED <<rIn, rOut, repo, isSyncing, statusBar, source, now, auto, config>>

\* GitService.isGitRepository, GitService.ts:325-332 : the working directory
\* is a repository, so nothing is cloned; user.name is configured next
InStatus(p) ==
  /\ proc[p].pc = "in_status"
  /\ Goes(p, After(proc[p], "status", "in_configName"), repo)
  /\ Internal

\* GitService.ts:318 : git config user.name
InConfigName(p) ==
  /\ proc[p].pc = "in_configName"
  /\ Goes(p, After(proc[p], "config", "in_configEmail"), repo)
  /\ Internal

\* GitService.ts:319 : git config user.email; part_004:71-77, the filter
\* service is created and the copy into the working directory awaited
InConfigEmail(p) ==
  /\ proc[p].pc = "in_configEmail"
  /\ Goes(p, After(proc[p], "config", "in_copy"), repo)
  /\ Internal

\* part_004:77-80 : the source files are copied in, the status is Pending
InCopy(p) ==
  /\ proc[p].pc = "in_copy"
  /\ repo' = [repo EXCEPT !.wt = CopyToSyncRepo(repo.wt, source)]
  /\ statusBar' = InitializedState
  /\ proc' = [proc EXCEPT ![p] =
       Finished([proc[p] EXCEPT !.ops = Append(@, "copyTo"),
                                !.reports = <<InitializedState>>], "ok", {})]
  /\ UNCHANGED <<isSyncing, gitService, source, now, auto, config>>
  /\ Internal

\* the callers that await a git process
AwaitsGit(p) == proc[p].pc \notin {"idle", "ps_copy", "in_copy"}

\* the GitService instances that have a git process running: each runs the
\* first of the commands queued on it
RunningGit == {proc[p].handle : p \in {q \in Procs : AwaitsGit(q)}}

NextHandles ==
  \/ Initialize
  \/ \E f \in Paths : EditSource(f)
  \/ \E p \in Procs :
       \/ Sync(p) \/ Push(p) \/ Pull(p)
       \/ ReinitializeCall(p)
       \/ InStatus(p) \/ InConfigName(p) \/ InConfigEmail(p) \/ InCopy(p)
       \/ GpStatus(p) \/ GpStashPush(p) \/ GpPullRebase(p)
       \/ GpPopBeforeThrow(p) \/ GpPopAfterPull(p)
       \/ PsCopy(p) \/ PsAdd(p) \/ PsStatus(p) \/ PsCommit(p) \/ PsPush(p)

SpecHandles == InitTimer /\ [][NextHandles]_vars

(***************************************************************************)
(* Configuration: the side panel's save (SidePanelProvider.ts:125-200),    *)
(* the setup wizard of the command palette (:610-696), the panel's refresh *)
(* (:86-119) and the user's edits of the settings.  Each handler runs on a  *)
(* service with no operation in flight and is taken whole.                  *)
(***************************************************************************)
\* the values of the syncIntervalMinutes setting (10 is that of the
\* ConfigService test, SidePanelProvider.ts:772)
IntervalSettings == {DefaultSyncIntervalMinutes, 10}

Configs ==
  [repositoryUrl : Urls \cup {NoUrl},
   autoSync : BOOLEAN,
   syncIntervalMinutes : IntervalSettings,
   credentials : [Urls -> Tokens]]

\* SidePanelProvider.checkIsPublicRepo, :242-264 : git ls-remote without
\* authentication succeeds
checkIsPublicRepo(url, net) == url = "public" /\ net = "ok"

\* ConfigService.setRepositoryUrl and saveCredentials, part_003:72-81, :333-336
Saved(cfg, url, token) ==
  [cfg EXCEPT !.repositoryUrl = url, !.credentials = [@ EXCEPT ![url] = token]]

\* ConfigService.deleteCredentials, part_003:94-99
CredentialsDeleted(cfg) ==
  IF Truthy(cfg.repositoryUrl)
    THEN [cfg EXCEPT !.credentials = [@ EXCEPT ![cfg.repositoryUrl] = "undefined"]]
    ELSE cfg

\* SidePanelProvider.ts:109-118 and :177-186 : the countdown callback is
\* registered and the timer started
CountdownWired(a, t) == Started([a EXCEPT !.countdownCallback = TRUE], t)

\* a handler that ended without touching the service
Refused(op, url, msg) ==
  /\ proc' = Calls(1, Finished([Called(op) EXCEPT !.url = url], "error", msg))
  /\ UNCHANGED <<repo, statusBar, gitService, auto, config>>

\* SyncService.initialize run to its end by a handler that goes on to wire
\* the countdown when wired is true
Configured(op, url, cfg, wired) ==
  /\ config' = cfg
  /\ gitService' = gitService + 1
  /\ repo' = [repo EXCEPT !.wt = CopyToSyncRepo(repo.wt, source)]
  /\ statusBar' = InitializedState
  /\ auto' = IF wired THEN CountdownWired(auto, now) ELSE auto
  /\ proc' = Calls(1, Finished([Called(op) EXCEPT !.url = url,
                                                  !.ops = <<"copyTo">>,
                                                  !.reports = <<InitializedState>>],
                               "ok", {}))

ConfigurationOnly == UNCHANGED <<rIn, rOut, isSyncing, source, now>>

\* SidePanelProvider.handleSaveConfig, :125-200
HandleSaveConfig ==
  /\ Callable(1)
  /\ Quiescent
  /\ nCalls' = nCalls + 1
  /\ ConfigurationOnly
  /\ \E repoUrl \in Urls \cup {NoUrl}, pat \in {"", "token"}, net \in NetStates :
       IF ~Truthy(repoUrl) \/ ~Truthy(pat)
         THEN Refused("saveConfig", repoUrl, {"Please fill in both fields"})
       ELSE IF checkIsPublicRepo(repoUrl, net)
         THEN Refused("saveConfig", repoUrl, {"Repository is PUBLIC!"})
       ELSE IF net # "ok"
         \* GitService.verifyAccess, GitService.ts:339-354
         THEN Refused("saveConfig", repoUrl, {"Cannot access repository"})
       ELSE Configured("saveConfig", repoUrl, Saved(config, repoUrl, pat), TRUE)

\* configureRepository, SidePanelProvider.ts:610-696 : the URL and the token
\* are saved and initialize() is called; the panel, when it is open, is
\* refreshed and wires the countdown (:691, :86-119); when initialize()
\* throws the credentials are deleted (:693)
ConfigureRepository ==
  /\ Callable(1)
  /\ Quiescent
  /\ nCalls' = nCalls + 1
  /\ ConfigurationOnly
  /\ \E repoUrl \in Urls, initialized \in BOOLEAN, view \in BOOLEAN :
       IF initialized
         THEN Configured("configure", repoUrl, Saved(config, repoUrl, "token"), view)
         ELSE /\ config' = CredentialsDeleted(Saved(config, repoUrl, "token"))
              /\ proc' = Calls(1, Finished([Called("configure") EXCEPT !.url = repoUrl],
                                           "error", {"Cannot access repository"}))
              /\ UNCHANGED <<repo, statusBar, gitService, auto>>

\* SidePanelProvider.sendConfigState, :86-119 : the panel is refreshed
SendConfigState ==
  /\ Callable(1)
  /\ Quiescent
  /\ nCalls' = nCalls + 1
  /\ ConfigurationOnly
  /\ LET res == isConfigured(config)
     IN  /\ proc' = Calls(1, Finished(
              [Called("isConfigured") EXCEPT
                 !.ops = IF res.asked THEN <<"getCredentials">> ELSE <<>>],
              IF res.result THEN "true" ELSE "false", {}))
         /\ auto' = IF res.result THEN CountdownWired(auto, now) ELSE auto
  /\ UNCHANGED <<repo, statusBar, gitService, config>>

\* the user edits the autoSync or syncIntervalMinutes setting
ChangeSettings ==
  /\ Quiescent
  /\ \E a \in BOOLEAN, m \in IntervalSettings :
       /\ <<a, m>> # <<config.autoSync, config.syncIntervalMinutes>>
       /\ config' = [config EXCEPT !.autoSync = a, !.syncIntervalMinutes = m]
  /\ UNCHANGED <<rIn, rOut, repo, proc, isSyncing, statusBar, gitService, source,
                 nCalls, now, auto>>

InitConfigure ==
  /\ Constructed
  /\ repo = BaseRepo
  /\ config \in Configs

NextConfigure ==
  \/ HandleSaveConfig
  \/ ConfigureRepository
  \/ SendConfigState
  \/ ChangeSettings
  \/ Initialize

SpecConfigure == InitConfigure /\ [][NextConfigure]_vars

(***************************************************************************)
(* GitService.pull on its own, called once on a repository in any of the   *)
(* health states: clean or dirty, conflicted, locked; ahead of the remote, *)
(* behind it or diverged from it; the remote empty or not.                 *)
(***************************************************************************)
LocalVersion == Version.local

\* an entry an earlier pull left on the stash
OldStash == [wt |-> [BaseTree EXCEPT ![PathOrder[1]] = RemoteVersion],
             base |-> BaseTree]

InitPull ==
  /\ NoResolverRun
  /\ proc = [p \in Procs |-> IdleProc]
  /\ isSyncing = FALSE
  /\ statusBar = "None"
  /\ gitService = NoHandle + 1
  /\ source = BaseTree
  /\ nCalls = 0
  /\ now = 0
  /\ auto = AutoOff
  /\ config = PrivateConfig
  /\ \E lf \in Paths, rf \in Paths, lh \in {1, 2}, rh \in {0, 1, 3},
        edit \in Paths \cup {"none"}, cf \in SUBSET Paths,
        ip \in {"none", "rebase", "merge"}, lk \in BOOLEAN,
        st \in {<<>>, <<OldStash>>}, tl \in 0..MaxTime, tr \in 0..MaxTime :
       LET cs == <<[tree |-> BaseTree, parent |-> 0, time |-> 0],
                   [tree |-> [BaseTree EXCEPT ![lf] = LocalVersion], parent |-> 1,
                    time |-> tl],
                   [tree |-> [BaseTree EXCEPT ![rf] = RemoteVersion], parent |-> 1,
                    time |-> tr]>>
           ht == cs[lh].tree
       IN  /\ Cardinality(cf) <= 1
           \* a commit that is on neither side is given no time of its own
           /\ (lh = 1) => (tl = 0)
           /\ (rh # 3) => (tr = 0)
           \* a merge in progress comes with its conflicted path; a rebase
           \* may have been left behind with none
           /\ (cf = {}) => (ip # "merge")
           /\ (lh = 1) => (lf = PathOrder[1])
           /\ (rh # 3) => (rf = PathOrder[1])
           /\ repo = [commits |-> cs,
                      localHead |-> lh,
                      originHead |-> IF rh = 0 THEN 0 ELSE 1,
                      remoteHead |-> rh,
                      origHead |-> IF ip = "rebase" THEN lh ELSE 0,
                      index |-> ht,
                      wt |-> IF edit = "none" THEN ht
                             ELSE [ht EXCEPT ![edit] = EditedVersion],
                      conflicted |-> cf, inProgress |-> ip, lock |-> lk,
                      stash |-> st, others |-> 0]

NextPull ==
  \E p \in {1} :
    \/ GitPullCall(p)
    \/ GpStatus(p) \/ GpStashPush(p) \/ GpPullRebase(p)
    \/ GpPopEmptyRepo(p) \/ GpPopBeforeThrow(p) \/ GpPopAfterPull(p)
    \/ SmRebaseAbort(p) \/ SmMergeAbort(p) \/ SmStashPop(p) \/ SmReset(p)
    \/ SmFetch(p) \/ SmDiff(p) \/ SmShow(p) \/ SmLog(p) \/ SmCheckout(p)
    \/ SmAdd(p) \/ SmStatus(p) \/ SmCommit(p) \/ SmPush(p)

SpecPull == InitPull /\ [][NextPull]_vars

(***************************************************************************)
(* SyncService.sync called by one caller on a repository in any of the     *)
(* states above, and called again once it has completed without error,     *)
(* nothing else happening in between.                                      *)
(***************************************************************************)
SyncFirst(p) == nCalls = 0 /\ Sync(p)

SyncAgain(p) ==
  /\ nCalls = 1
  /\ proc[p].op = "sync" /\ proc[p].ret = "ok"
  /\ Sync(p)

NextSyncTwice ==
  \E p \in {1} :
    \/ SyncFirst(p) \/ SyncAgain(p)
    \/ GpStatus(p) \/ GpStashPush(p) \/ GpPullRebase(p)
    \/ GpPopEmptyRepo(p) \/ GpPopBeforeThrow(p) \/ GpPopAfterPull(p)
    \/ SmRebaseAbort(p) \/ SmMergeAbort(p) \/ SmStashPop(p) \/ SmReset(p)
    \/ SmFetch(p) \/ SmDiff(p) \/ SmShow(p) \/ SmLog(p) \/ SmCheckout(p)
    \/ SmAdd(p) \/ SmStatus(p) \/ SmCommit(p) \/ SmPush(p)
    \/ PsCopy(p) \/ PsAdd(p) \/ PsStatus(p) \/ PsCommit(p) \/ PsPush(p)

SpecSyncTwice == InitPull /\ [][NextSyncTwice]_vars

(***************************************************************************)
(* One operation, GitService.pull or sync(), push() or pull() of           *)
(* SyncService, called once on a repository in any of the states above.    *)
(* Every git primitive and every copy returns or fails, and the event loop *)
(* runs the code that awaits it: a step that can be taken is taken.        *)
(***************************************************************************)
PushFirst(p) == nCalls = 0 /\ Push(p)

PullFirst(p) == nCalls = 0 /\ Pull(p)

\* the awaited primitive of caller p completes and its continuation runs
OperationStep(p) ==
  \/ GpStatus(p) \/ GpStashPush(p) \/ GpPullRebase(p)
  \/ GpPopEmptyRepo(p) \/ GpPopBeforeThrow(p) \/ GpPopAfterPull(p)
  \/ SmRebaseAbort(p) \/ SmMergeAbort(p) \/ SmStashPop(p) \/ SmReset(p)
  \/ SmFetch(p) \/ SmDiff(p) \/ SmShow(p) \/ SmLog(p) \/ SmCheckout(p)
  \/ SmAdd(p) \/ SmStatus(p) \/ SmCommit(p) \/ SmPush(p)
  \/ PsCopy(p) \/ PsAdd(p) \/ PsStatus(p) \/ PsCommit(p) \/ PsPush(p)

NextOnce ==
  \E p \in {1} :
    \/ GitPullCall(p) \/ SyncFirst(p) \/ PushFirst(p) \/ PullFirst(p)
    \/ OperationStep(p)

SpecOnce == InitPull /\ [][NextOnce]_vars /\ WF_vars(OperationStep(1))

(***************************************************************************)
(* The resolver on its own: inputs drawn from the bounded sets, each       *)
(* implementation applied to them.                                         *)
(***************************************************************************)
ResolverInputs ==
  [localSize : 0..MaxSize, localMtime : 0..MaxTime,
   remoteSize : 0..MaxSize, remoteMtime : 0..MaxTime]

InitResolve ==
  /\ rIn \in ResolverInputs
  /\ rOut = [inline |-> NoDecision, method |-> NoDecision]
  /\ repo = BaseRepo
  /\ proc = [p \in Procs |-> IdleProc]
  /\ isSyncing = FALSE
  /\ statusBar = "None"
  /\ gitService = NoHandle
  /\ source = BaseTree
  /\ nCalls = 0
  /\ now = 0
  /\ auto = AutoOff
  /\ config = PrivateConfig

\* the inline resolver of handleSmartMerge applied to the inputs
ResolveInline ==
  /\ rOut.inline = NoDecision
  /\ rOut' = [rOut EXCEPT !.inline =
                Decision(InlineResolve(rIn.localSize, rIn.localMtime,
                                       rIn.remoteSize, rIn.remoteMtime))]
  /\ UNCHANGED <<rIn, repo, proc, isSyncing, statusBar, gitService, source, nCalls, now, auto, config>>

\* resolveBinaryConflict applied to the inputs
ResolveMethod ==
  /\ rOut.method = NoDecision
  /\ rOut' = [rOut EXCEPT !.method =
                Decision(resolveBinaryConflict(rIn.localSize, rIn.localMtime,
                                               rIn.remoteSize, rIn.remoteMtime))]
  /\ UNCHANGED <<rIn, repo, proc, isSyncing, statusBar, gitService, source, nCalls, now, auto, config>>

NextResolve == ResolveInline \/ ResolveMethod

SpecResolve == InitResolve /\ [][NextResolve]_vars

(***************************************************************************)
(* Properties of the resolver (checked under SpecResolve).                 *)
(***************************************************************************)
\* diffRatio = |localSize - remoteSize| / max(localSize, remoteSize, 1),
\* compared with 0.20 as an exact rational
DiffRatioDenominator(localSize, remoteSize) ==
  MathMax(MathMax(localSize, remoteSize), 1)

DiffRatioAbove20(localSize, remoteSize) ==
  5 * Abs(localSize - remoteSize) > DiffRatioDenominator(localSize, remoteSize)

DiffRatioIs20(localSize, remoteSize) ==
  5 * Abs(localSize - remoteSize) = DiffRatioDenominator(localSize, remoteSize)

\* the decisions taken so far, of either implementation
Decided == {d \in {rOut.inline, rOut.method} : d # NoDecision}

\* C3: when diffRatio > 0.20 every resolver keeps the strictly larger side,
\* whatever the two timestamps are.
C3_LargerSideWins ==
  DiffRatioAbove20(rIn.localSize, rIn.remoteSize) =>
    \A d \in Decided :
      /\ rIn.localSize > rIn.remoteSize => d.side = "local"
      /\ rIn.remoteSize > rIn.localSize => d.side = "remote"

\* the smaller local file is the newer one, and the larger remote is kept
C3_Witness ==
  /\ rOut.inline # NoDecision /\ rOut.method # NoDecision
  /\ DiffRatioAbove20(rIn.localSize, rIn.remoteSize)
  /\ rIn.remoteSize > rIn.localSize
  /\ rIn.localMtime > rIn.remoteMtime
  /\ rOut.inline.side = "remote"

\* C4: when diffRatio <= 0.20 (equal sizes included) every resolver decides
\* by timestamp only: local when tLocal >= tRemote, remote when tLocal < tRemote.
C4_NewerSideWins ==
  ~DiffRatioAbove20(rIn.localSize, rIn.remoteSize) =>
    \A d \in Decided :
      /\ rIn.localMtime > rIn.remoteMtime => d.side = "local"
      /\ rIn.localMtime < rIn.remoteMtime => d.side = "remote"
      /\ rIn.localMtime = rIn.remoteMtime => d.side = "local"

\* the larger local file is the older one, sizes comparable: remote is kept
C4_Witness ==
  /\ rOut.inline # NoDecision /\ rOut.method # NoDecision
  /\ ~DiffRatioAbove20(rIn.localSize, rIn.remoteSize)
  /\ rIn.localSize > rIn.remoteSize
  /\ rIn.localMtime < rIn.remoteMtime
  /\ rOut.inline.side = "remote"

\* C5 as stated: when diffRatio is exactly 0.20 the timestamp branch is not
\* used; (100, 79) gives KeepLocal; (100, 81) is decided by the timestamps.
C5_BoundaryAsStated ==
  \A d \in Decided :
    /\ DiffRatioIs20(rIn.localSize, rIn.remoteSize) => d.branch # "newer"
    /\ rIn.localSize = 100 /\ rIn.remoteSize = 79 => d.side = "local"
    /\ rIn.localSize = 100 /\ rIn.remoteSize = 81 => d.branch = "newer"

\* C5 (amended): the size branch is taken only when diffRatio > 0.20 strictly,
\* so at exactly 0.20 (sizes 100 and 80) the timestamp branch IS used;
\* (100, 79) gives KeepLocal whatever the timestamps are and (100, 81) is
\* decided by the timestamp branch.
C5_BoundaryStrict ==
  \A d \in Decided :
    /\ DiffRatioIs20(rIn.localSize, rIn.remoteSize) =>
         /\ d.branch = "newer"
         /\ d.side = (IF rIn.localMtime >= rIn.remoteMtime
                        THEN "local" ELSE "remote")
    /\ rIn.localSize = 100 /\ rIn.remoteSize = 79 =>
         d.side = "local" /\ d.branch = "larger"
    /\ rIn.localSize = 100 /\ rIn.remoteSize = 81 =>
         /\ d.branch = "newer"
         /\ d.side = (IF rIn.localMtime >= rIn.remoteMtime
                        THEN "local" ELSE "remote")

\* sizes 100 and 80, remote newer: the smaller remote file is kept
C5_Witness ==
  /\ rIn.localSize = 100 /\ rIn.remoteSize = 80
  /\ rIn.localMtime < rIn.remoteMtime
  /\ rOut.inline = [side |-> "remote", branch |-> "newer"]
  /\ rOut.method = [side |-> "remote", branch |-> "newer"]

\* the reference resolver of the design: larger side when diffRatio > 0.20,
\* else the later timestamp, ties to local
ReferenceResolve(localSize, localMtime, remoteSize, remoteMtime) ==
  IF DiffRatioAbove20(localSize, remoteSize)
    THEN (IF localSize >= remoteSize THEN "local" ELSE "remote")
    ELSE (IF localMtime >= remoteMtime THEN "local" ELSE "remote")

\* C6: on every input, both sizes 0 included, each implementation yields a
\* decision, the one of the reference resolver, and the two implementations
\* agree.
C6_TotalAndEqualToReference ==
  /\ \A d \in Decided :
       /\ d.side \in {"local", "remote"}
       /\ d.side = ReferenceResolve(rIn.localSize, rIn.localMtime,
                                    rIn.remoteSize, rIn.remoteMtime)
  /\ rOut.inline # NoDecision /\ rOut.method # NoDecision =>
       rOut.inline = rOut.method

\* both files empty or absent, remote timestamp later
C6_Witness ==
  /\ rIn.localSize = 0 /\ rIn.remoteSize = 0
  /\ rIn.localMtime < rIn.remoteMtime
  /\ rOut.inline # NoDecision /\ rOut.method # NoDecision
  /\ rOut.inline.side = "remote"

(***************************************************************************)
(* Properties of SyncService.sync and of GitService.pull.                  *)
(***************************************************************************)
\* the call issued primitive `name`
Has(pr, name) == \E i \in DOMAIN pr.ops : pr.ops[i] = name

\* the call issued none of the primitives in S
NoneOf(pr, S) == \A i \in DOMAIN pr.ops : pr.ops[i] \notin S

\* the call is over
Returned(pr) == pr.pc = "idle" /\ pr.ret # "none"

\* a call of GitService.pull is over
GitPullOver(pr) == pr.op = "gitPull" /\ Returned(pr)

\* a sync() of caller p is between its first await and its return
SyncInFlight(p) == proc[p].op = "sync" /\ proc[p].pc # "idle"

\* this step is a call of sync() by caller p
SyncCalled(p) ==
  /\ nCalls' = nCalls + 1
  /\ proc[p].pc = "idle"
  /\ proc'[p].op = "sync"

\* the primitives that write history or the remote
CommitResetPush ==
  {"commit", "commit failed", "reset --hard", "push --force",
   "push --force failed", "push", "push failed"}

\* C1: at most one sync() is in flight at a time, the flag isSyncing is set
\* exactly while one is, and a sync() called while the flag is set returns at
\* once: it issues no repository operation, reports no status and leaves
\* the repository, the source directory, the status and the flag as they were.
C1_SecondSyncSkipped ==
  /\ [](Cardinality({p \in Procs : SyncInFlight(p)}) <= 1)
  /\ [](isSyncing <=> \E p \in Procs : SyncInFlight(p))
  /\ [][\A p \in Procs :
          (SyncCalled(p) /\ isSyncing) =>
            /\ proc'[p].pc = "idle"
            /\ proc'[p].ret = "skipped"
            /\ proc'[p].ops = <<>>
            /\ proc'[p].reports = <<>>
            /\ repo' = repo
            /\ source' = source
            /\ statusBar' = statusBar
            /\ isSyncing' = isSyncing]_vars

\* a sync() was skipped while the sync() of the other caller is in flight
C1_Witness ==
  \E p \in Procs, q \in Procs :
    /\ p # q
    /\ SyncInFlight(q)
    /\ Len(proc[q].ops) > 0
    /\ proc[p].op = "sync" /\ proc[p].ret = "skipped" /\ proc[p].pc = "idle"

\* content v of path f is held by the working tree, by a stash entry or by
\* a commit reachable from the local HEAD
Held(f, v) ==
  \/ repo.wt[f] = v
  \/ \E i \in DOMAIN repo.stash : repo.stash[i].wt[f] = v
  \/ \E c \in Ancestors(repo, repo.localHead) : repo.commits[c].tree[f] = v

\* C2: when GitService.pull is over, normally or with an error, every
\* uncommitted content the working tree held when it was entered (on a
\* repository without conflicted paths) is still held by the working tree,
\* a commit reachable from HEAD or the stash.
C2_NoDataLost ==
  \A p \in Procs :
    (GitPullOver(proc[p]) /\ proc[p].start.conflicted = {}) =>
      \A f \in Paths :
        LET v == proc[p].start.wt[f]
        IN  (v # 0 /\ v # proc[p].start.head[f]) => Held(f, v)

\* C7: a pull whose pull --rebase failed with "couldn't find remote ref"
\* ends without error, having issued the stash pop exactly when it had
\* issued the stash push and nothing after it: no commit, no reset, no
\* push; HEAD and its tree are those of the start.
C7_EmptyRemoteIsNoError ==
  \A p \in Procs :
    (GitPullOver(proc[p]) /\ proc[p].err = MsgNoRemoteRef) =>
      /\ proc[p].ret = "ok"
      /\ proc[p].ops \in {<<"status", "pull --rebase">>,
                          <<"status", "stash push", "pull --rebase", "stash pop">>}
      /\ NoneOf(proc[p], CommitResetPush)
      /\ repo.localHead = proc[p].start.localHead
      /\ HeadTree(repo) = proc[p].start.head

\* a pull on an empty remote that pushed and popped the stash is over
C7_Witness ==
  \E p \in Procs :
    /\ GitPullOver(proc[p])
    /\ proc[p].err = MsgNoRemoteRef
    /\ proc[p].start.remoteHead = 0
    /\ Has(proc[p], "stash push") /\ Has(proc[p], "stash pop")
    /\ proc[p].ret = "ok"

\* C8: a pull entered on a repository with conflicted paths goes from its
\* initial status straight to the first step of the recovery merge, with
\* hasStash false; it issues no stash push, no stash pop, no pull --rebase.
C8_ConflictsGoStraightToRecovery ==
  \A p \in Procs :
    (proc[p].op = "gitPull" /\ proc[p].start.conflicted # {}
       /\ Len(proc[p].ops) >= 1) =>
      /\ proc[p].hasStash = FALSE
      /\ NoneOf(proc[p], {"stash push", "stash pop", "pull --rebase"})
      /\ Len(proc[p].ops) = 1 => proc[p].pc = "sm_rebaseAbort"
      /\ Len(proc[p].ops) >= 2 => proc[p].ops[2] = "rebase --abort"

\* a pull entered with conflicted paths is over, its recovery merge having
\* reached the force push
C8_Witness ==
  \E p \in Procs :
    /\ GitPullOver(proc[p])
    /\ proc[p].start.conflicted # {}
    /\ Has(proc[p], "reset --hard")
    /\ Has(proc[p], "push --force")

\* the primitive issued right after pull --rebase, "none" if there is none
AfterPullRebase(pr) ==
  IF \E i \in DOMAIN pr.ops : pr.ops[i] = "pull --rebase" /\ i < Len(pr.ops)
    THEN pr.ops[(CHOOSE i \in DOMAIN pr.ops : pr.ops[i] = "pull --rebase") + 1]
    ELSE "none"

\* C9: a pull whose pull --rebase failed with a message of the divergence
\* class ran the recovery merge, with the stash popped there exactly when
\* this call had pushed it, and ended without error.
C9_DivergenceEndsDone ==
  \A p \in Procs :
    (GitPullOver(proc[p]) /\ proc[p].err \cap DivergencePatterns # {}) =>
      /\ AfterPullRebase(proc[p]) = "rebase --abort"
      /\ Has(proc[p], "stash push") <=> Has(proc[p], "stash pop")
      /\ proc[p].retMsg # proc[p].err
      /\ proc[p].ret = "ok"

\* C10: a pull whose pull --rebase failed with a message of neither class
\* ends with that very error, having issued the stash pop exactly when it
\* had issued the stash push and nothing after it: no commit, no reset, no
\* push.
C10_OtherFailurePropagates ==
  \A p \in Procs :
    (GitPullOver(proc[p]) /\ proc[p].err # {}
       /\ "couldn't find remote ref" \notin proc[p].err
       /\ proc[p].err \cap DivergencePatterns = {}) =>
      /\ proc[p].ret = "error"
      /\ proc[p].retMsg = proc[p].err
      /\ proc[p].ops \in {<<"status", "pull --rebase">>,
                          <<"status", "stash push", "pull --rebase", "stash pop">>}
      /\ NoneOf(proc[p], CommitResetPush)

\* a pull that pushed the stash, met a network failure and popped it is over
C10_Witness ==
  \E p \in Procs :
    /\ GitPullOver(proc[p])
    /\ proc[p].err = MsgNetwork
    /\ proc[p].ops = <<"status", "stash push", "pull --rebase", "stash pop">>
    /\ proc[p].ret = "error"

\* the call entered the recovery merge
Recovered(pr) == Has(pr, "rebase --abort")

\* C11: a pull whose recovery merge met a failing force push ends with an
\* error.
C11_ForcePushFailureSurfaced ==
  \A p \in Procs :
    (GitPullOver(proc[p]) /\ Has(proc[p], "push --force failed")) =>
      proc[p].ret = "error"

\* C12: a pull that entered the recovery merge is not over before the
\* recovery has issued its force push, whatever step failed before.
C12_RecoveryReachesForcePush ==
  \A p \in Procs :
    (GitPullOver(proc[p]) /\ Recovered(proc[p])) =>
      \/ Has(proc[p], "push --force")
      \/ Has(proc[p], "push --force failed")

\* the health state Clean: no uncommitted change, no conflicted path, no
\* lock file
Clean(r) ==
  /\ StatusFiles(r) = {}
  /\ r.conflicted = {}
  /\ r.lock = FALSE

\* C13: while GitService.pull awaits its pull --rebase, issued on the
\* repository as it is, the repository is Clean.
C13_CleanBeforePullRebase ==
  \A p \in Procs :
    (proc[p].op = "gitPull" /\ proc[p].pc = "gp_pullRebase") => Clean(repo)

\* the primitives of the push steps
PushSteps == {"copyTo", "add", "commit", "commit failed", "push", "push failed"}

\* the positions of primitive `name` among those the call issued
Positions(pr, name) == {i \in DOMAIN pr.ops : pr.ops[i] = name}

\* the last primitive GitService.pull issues when it returns normally
PullEndings == {"pull --rebase", "stash pop", "push --force", "push --force failed"}

\* the last state the call reported, "none" if it reported none
LastReport(pr) ==
  IF pr.reports = <<>> THEN "none" ELSE pr.reports[Len(pr.reports)]

\* C14: in a sync() the files are copied back, which ends the pull phase,
\* only after GitService.pull returned normally; the mirror copy of the push
\* phase comes right after that, and stage, commit and push after the mirror
\* copy.  A sync() whose pull phase failed issued no step of the push phase,
\* pulled once, reported Error last and ended with the error.
C14_SyncIsPullThenPush ==
  \A p \in Procs :
    proc[p].op = "sync" =>
      LET pr == proc[p]
      IN  /\ \A i \in Positions(pr, "copyFrom") :
               /\ i > 1 /\ pr.ops[i - 1] \in PullEndings
               /\ "unable to access" \notin pr.err
               /\ \A j \in DOMAIN pr.ops :
                    pr.ops[j] \in {"copyTo", "push", "push failed"} => j > i
          /\ \A i \in Positions(pr, "copyTo") : i > 1 /\ pr.ops[i - 1] = "copyFrom"
          /\ pr.pc \in {"ps_copy", "ps_add", "ps_status", "ps_commit", "ps_push"}
               => Has(pr, "copyFrom")
          /\ (Returned(pr) /\ pr.ret = "error" /\ ~Has(pr, "copyFrom")) =>
               /\ NoneOf(pr, PushSteps)
               /\ Cardinality(Positions(pr, "pull --rebase")) <= 1
               /\ Cardinality(Positions(pr, "rebase --abort")) <= 1
               /\ LastReport(pr) = "Error"
               /\ pr.retMsg # {}

\* a sync() whose pull --rebase met a network failure is over
C14_Witness ==
  \E p \in Procs :
    /\ proc[p].op = "sync" /\ Returned(proc[p])
    /\ proc[p].ret = "error" /\ proc[p].retMsg = MsgNetwork
    /\ Has(proc[p], "pull --rebase")
    /\ ~Has(proc[p], "copyFrom")
    /\ statusBar = "Error"

\* the primitives from position i on are those of the push steps in their
\* order: mirror copy, stage, status, commit, and a push only after a commit
\* that was created
PushStepsFrom(pr, i) ==
  /\ pr.ops[i] = "copyTo"
  /\ Len(pr.ops) <= i + 4
  /\ Len(pr.ops) >= i + 1 => pr.ops[i + 1] = "add"
  /\ Len(pr.ops) >= i + 2 => pr.ops[i + 2] = "status"
  /\ Len(pr.ops) >= i + 3 => pr.ops[i + 3] \in {"commit", "commit failed"}
  /\ Len(pr.ops) >= i + 4 =>
       /\ pr.ops[i + 3] = "commit"
       /\ pr.ops[i + 4] \in {"push", "push failed"}

\* C15: a push() first pulls, then issues mirror copy, stage, commit in
\* that order, and the repository push only after git commit created a
\* commit; a push() that found nothing to commit issued no push and ended
\* without error, reporting Synced last.
C15_PushOrder ==
  \A p \in Procs :
    proc[p].op = "push" =>
      LET pr == proc[p]
      IN  /\ Len(pr.ops) >= 1 => pr.ops[1] = "status"
          /\ \A i \in DOMAIN pr.ops :
               pr.ops[i] \in {"copyTo", "push", "push failed"} =>
                 \E j \in Positions(pr, "copyTo") :
                   /\ j <= i
                   /\ j > 1 /\ pr.ops[j - 1] \in PullEndings
                   /\ PushStepsFrom(pr, j)
          /\ pr.pc \in {"ps_add", "ps_status", "ps_commit", "ps_push"}
               => Has(pr, "copyTo")
          /\ (Returned(pr) /\ Has(pr, "copyTo")
                /\ pr.ops[Len(pr.ops)] \in {"status", "commit failed"}
                /\ pr.retMsg \in {{}, MsgNothingToCommit}) =>
               /\ pr.ret = "ok"
               /\ LastReport(pr) = "Synced"
               /\ NoneOf(pr, {"push", "push failed"})

\* a push() that staged nothing is over: no commit, no push, Synced
C15_Witness ==
  \E p \in Procs :
    /\ proc[p].op = "push" /\ Returned(proc[p])
    /\ Has(proc[p], "copyTo")
    /\ proc[p].ops[Len(proc[p].ops)] = "status"
    /\ proc[p].ret = "ok"
    /\ LastReport(proc[p]) = "Synced"

\* C16: in a sync() run right after a sync() that completed without error,
\* no step changes the source directory, the local HEAD, the commits or the
\* remote branch, and the run issues no commit and no push and never finds
\* a change staged.
C16_SecondSyncChangesNothing ==
  /\ [][(nCalls = 2 /\ nCalls' = 2) =>
          /\ source' = source
          /\ repo'.localHead = repo.localHead
          /\ repo'.remoteHead = repo.remoteHead
          /\ repo'.commits = repo.commits]_vars
  /\ [](nCalls = 2 =>
          \A p \in Procs :
            /\ NoneOf(proc[p], {"commit", "push", "push failed",
                                "push --force", "push --force failed"})
            /\ proc[p].pc \notin {"ps_commit", "ps_push"})

\* the state an operation reports when it starts
FirstReport == [sync |-> "Syncing", push |-> "Pushing", pull |-> "Pulling"]

\* the operation of caller p is one of SyncService
IsOperation(pr) == pr.op \in DOMAIN FirstReport

\* the operation ended before it reported a state: a sync() skipped, a
\* push() or pull() without a repository handle
EndedUnreported(pr) ==
  \/ pr.ret = "skipped"
  \/ pr.op \in {"push", "pull"} /\ pr.retMsg = MsgNotInitialized

C18_InitializeLeavesPending ==
  \A p \in Procs :
    (proc[p].op = "initialize" /\ Returned(proc[p])) =>
      /\ proc[p].ret = "ok" =>
           /\ gitService # NoHandle
           /\ statusBar = "Pending"
           /\ proc[p].reports = <<"Pending">>
           /\ proc[p].ops = <<"copyTo">>
      /\ proc[p].ret # "ok" =>
           /\ proc[p].ret = "error"
           /\ proc[p].retMsg = MsgNotConfigured
           /\ gitService = NoHandle
           /\ proc[p].reports = <<>>
           /\ proc[p].ops = <<>>

\* an initialize() has succeeded, an edited source file copied in
C18_Witness ==
  \E p \in Procs :
    /\ proc[p].op = "initialize" /\ Returned(proc[p])
    /\ proc[p].ret = "ok"
    /\ repo.wt # HeadTree(repo)
    /\ statusBar = "Pending"

\* this step is a call of sync(), push() or pull() by caller p
OperationCalled(p) ==
  /\ nCalls' = nCalls + 1
  /\ proc[p].pc = "idle"
  /\ IsOperation(proc'[p])

TickerRan ==
  /\ auto.countdownCallback
  /\ auto.countdownInterval.set
  /\ auto'.countdownInterval # auto.countdownInterval
  /\ auto'.countdown.by = "ticker"

\* C20: while auto-sync is running, every value the one-second ticker gives
\* the registered countdown callback is max(0, nextFire - now) rounded up to
\* whole seconds, nextFire being the next-fire timestamp the service keeps:
\* it is the least whole number of seconds that is not less than the time
\* left, 0 when that time is over, and never more than the auto-sync
\* interval in seconds
C20_CountdownIsSecondsLeftRoundedUp ==
  [][TickerRan =>
       LET v == auto'.countdown.value
           left == auto.nextSyncTime - now
       IN  /\ v \in 0..IntervalSeconds
           /\ left <= 0 => v = 0
           /\ left > 0 => /\ (v - 1) * MsPerSecond < left
                          /\ left <= v * MsPerSecond]_vars

\* the ticker gave the callback 2 with more than one and less than two
\* seconds left
C20_Witness ==
  /\ auto.countdownCallback
  /\ auto.countdownInterval.set
  /\ auto.countdown = [value |-> 2, by |-> "ticker"]
  /\ auto.countdownInterval.due = now + CountdownPeriodMs
  /\ auto.nextSyncTime - now > MsPerSecond
  /\ auto.nextSyncTime - now < 2 * MsPerSecond

\* the registered countdown callback is given 0 by stopAutoSync's code
ZeroReported ==
  /\ auto.countdownCallback
  /\ auto'.countdown # auto.countdown
  /\ auto'.countdown = [value |-> 0, by |-> "stop"]

\* C21: the countdown value 0 is reported only when a running timer is
\* stopped: whenever the callback is given 0 outside the ticker, an auto-sync
\* timer was running before the step and none is running after it, so neither
\* startAutoSync() nor a stopAutoSync() with no timer running reports 0
C21_ZeroOnlyWhenRunningTimerStops ==
  [][ZeroReported => auto.autoSyncTimer.set /\ ~auto'.autoSyncTimer.set]_vars

\* no auto-sync timer is running
TimerStopped == ~auto.autoSyncTimer.set

\* the auto-sync timer calls sync
TimerCallsSync ==
  /\ nCalls' = nCalls + 1
  /\ \E p \in Procs : proc[p].pc = "idle" /\ proc'[p].op = "sync" /\ proc'[p].byTimer

\* C22: stopAutoSync() cancels both periodic tasks: while no auto-sync timer
\* is running the ticker is not running either and the last countdown value
\* emitted is 0, and until startAutoSync() is called again the timer calls no
\* sync() and the callback is given nothing but the 0 of a repeated stop
C22_StopCancelsBothTasks ==
  /\ [](TimerStopped => /\ ~auto.countdownInterval.set
                        /\ auto.countdown.value = 0
                        /\ auto.countdown.by # "ticker")
  /\ [][TimerStopped /\ TimerStopped' =>
          /\ ~TimerCallsSync
          /\ auto'.countdown # auto.countdown => auto'.countdown.by = "stop"
          /\ auto'.countdownInterval = auto.countdownInterval]_vars

\* the timer was stopped after it had called sync and the ticker had been
\* heard, and the clock has run to its end
C22_Witness ==
  /\ TimerStopped
  /\ auto.countdown = [value |-> 0, by |-> "stop"]
  /\ auto.nextSyncTime = 0
  /\ nCalls >= 1
  /\ now = MaxNow

\* a sync run the auto-sync timer started ends in this step, with or without
\* an error
TimerSyncCompletes(p) ==
  /\ proc[p].pc # "idle" \/ nCalls' = nCalls + 1
  /\ proc'[p].pc = "idle"
  /\ proc'[p].op = "sync"
  /\ proc'[p].byTimer
  /\ proc'[p].ret \in {"ok", "error"}

\* C23: after every sync run of the running auto-sync timer completes,
\* whether it succeeded or failed, the next fire time is the completion time
\* plus the auto-sync interval
C23_NextFireRecomputedOnCompletion ==
  [][\A p \in Procs :
       TimerSyncCompletes(p) /\ auto.autoSyncTimer.set /\ gitService # NoHandle
         => auto'.nextSyncTime = now + AUTO_SYNC_INTERVAL_MS]_vars

\* the auto-sync timer starts a sync run: its call is not skipped
TimerStartsRun ==
  /\ nCalls' = nCalls + 1
  /\ \E p \in Procs : /\ proc[p].pc = "idle"
                      /\ proc'[p].op = "sync"
                      /\ proc'[p].byTimer
                      /\ proc'[p].pc # "idle"

\* the last timer run was still in flight when the interval elapsed: the
\* timer's call in between was skipped, and the run has completed since
SlowRunCompleted ==
  /\ \E q \in Procs : proc[q].byTimer /\ proc[q].ret = "skipped"
  /\ \E q \in Procs : proc[q].byTimer /\ proc[q].op = "sync" /\ proc[q].ret = "ok"
  /\ Quiescent

\* C24: a slow sync delays the next scheduled run: after a timer run that
\* was still in flight when the interval elapsed has completed, the next run
\* of the timer starts no earlier than the recomputed next fire time, one
\* interval after the completion
C24_SlowRunDelaysNextRun ==
  [][SlowRunCompleted /\ TimerStartsRun => now >= auto.nextSyncTime]_vars

\* push() or pull() is called by caller p while another operation is in
\* flight on an initialized service
PushOrPullCalledDuring(p) ==
  /\ nCalls' = nCalls + 1
  /\ proc[p].pc = "idle"
  /\ proc'[p].op \in {"push", "pull"}
  /\ gitService # NoHandle
  /\ \E q \in Procs : q # p /\ proc[q].pc # "idle"

\* C25: push() and pull() are not excluded from each other or from a sync()
\* in flight: called while another operation is running, whatever the
\* in-flight flag says, they report their state, leave the flag alone and go
\* on to their first repository operation
C25_PushAndPullNotExcluded ==
  [][\A p \in Procs :
       PushOrPullCalledDuring(p) =>
         /\ proc'[p].pc = "gp_status"
         /\ proc'[p].reports =
              <<IF proc'[p].op = "push" THEN "Pushing" ELSE "Pulling">>
         /\ isSyncing' = isSyncing]_vars

\* two operations are active at once: a sync() holding the flag and a push()
\* called after it, each having issued repository operations
C25_Witness ==
  /\ isSyncing
  /\ proc[1].op = "sync" /\ proc[1].pc # "idle" /\ Len(proc[1].ops) >= 1
  /\ proc[2].op = "push" /\ proc[2].pc # "idle" /\ Len(proc[2].ops) >= 1

\* C26: at most one git process runs against the working directory at any
\* instant, whatever operations and initialize() calls are interleaved
C26_OneGitProcessAtATime == Cardinality(RunningGit) <= 1

\* the stash pop caller p awaits fails
PopFails(p) ==
  /\ proc[p].pc \in {"gp_popEmptyRepo", "gp_popBeforeThrow", "gp_popAfterPull",
                     "sm_stashPop"}
  /\ proc'[p] # proc[p]
  /\ ~GitStashPop(repo).ok

\* C27: a failing stash pop is never surfaced: where the pop ends the pull,
\* the pull returns to its caller if the rebase pull had succeeded or the
\* remote was empty and throws the rebase pull's own error otherwise, and in
\* the recovery merge the hard reset follows, all as after a pop that
\* succeeded
C27_StashPopFailureAbsorbed ==
  [][\A p \in Procs :
       PopFails(p) =>
         CASE proc[p].pc = "sm_stashPop" -> proc'[p].pc = "sm_reset"
           [] proc[p].pc = "gp_popBeforeThrow" ->
                /\ proc'[p].ret = "error"
                /\ proc'[p].retMsg = proc[p].err
           [] OTHER ->
                IF proc[p].op \in {"sync", "push"}
                  THEN proc'[p].pc = "ps_copy"
                  ELSE proc'[p].ret = "ok"]_vars

\* a pull() with no other operation beside it returned although the stash
\* pop after its rebase pull met conflicts: the entry is still on the stash
\* and paths are left unmerged
C27_Witness ==
  /\ proc[1].op = "pull"
  /\ proc[1].ret = "ok"
  /\ proc[2].op = "none"
  /\ Len(proc[1].ops) >= 2
  /\ proc[1].ops[Len(proc[1].ops) - 1] = "stash pop"
  /\ Len(repo.stash) > proc[1].start.stashLen
  /\ repo.conflicted # {}

\* a configuration path ran for a repository that answers without
\* authentication
PublicRepositoryGiven ==
  /\ nCalls' = nCalls + 1
  /\ proc'[1].op \in {"saveConfig", "configure"}
  /\ proc'[1].url = "public"

\* C28: only private repositories are ever synced: when the side panel's
\* save or the setup wizard is given a repository that is reachable without
\* authentication, no URL or credential is saved, initialize() creates no
\* repository handle and auto-sync is not started
C28_PublicRepositoryNeverConfigured ==
  [][PublicRepositoryGiven =>
       /\ config' = config
       /\ gitService' = gitService
       /\ auto' = auto]_vars

\* the auto-sync timer is started
TimerStarted == auto'.autoSyncTimer.set /\ auto'.autoSyncTimer # auto.autoSyncTimer

\* the milliseconds of m minutes, AUTO_SYNC_INTERVAL_MS being those of the
\* default of 5 minutes
MinutesMs(m) == (m * AUTO_SYNC_INTERVAL_MS) \div DefaultSyncIntervalMinutes

\* C29: the auto-sync timer follows the settings: it is started only when
\* the autoSync setting is true, and its period and the first countdown are
\* the configured syncIntervalMinutes, whatever value is configured
C29_TimerFollowsSettings ==
  [][TimerStarted =>
       /\ config'.autoSync
       /\ auto'.autoSyncTimer.due - now = MinutesMs(config'.syncIntervalMinutes)
       /\ auto'.nextSyncTime - now = MinutesMs(config'.syncIntervalMinutes)]_vars

\* isConfigured() returns
IsConfiguredReturns == nCalls' = nCalls + 1 /\ proc'[1].op = "isConfigured"

RecoverySteps ==
  {"sm_rebaseAbort", "sm_mergeAbort", "sm_stashPop", "sm_reset", "sm_fetch",
   "sm_diff", "sm_show", "sm_log", "sm_checkout", "sm_add", "sm_status",
   "sm_commit", "sm_push"}

ResolutionSteps ==
  {"sm_diff", "sm_show", "sm_log", "sm_checkout", "sm_add", "sm_status",
   "sm_commit", "sm_push"}

\* the contents of path f that are local when caller p takes a step: those
\* of the working tree and of HEAD when the pull was entered, and those of
\* the stash entries
LocalContents(p, f) ==
  {proc[p].start.wt[f], proc[p].start.head[f]}
    \cup {repo.stash[i].wt[f] : i \in DOMAIN repo.stash}

\* C31: in the recovery merge only paths with a binary extension are handed
\* to the resolver or checked out from the remote; from the diff on, no step
\* changes the working-tree content of any other path, and before it such a
\* path only ever takes a local content
C31_OnlyBinaryPathsResolved ==
  [][\A p \in Procs : proc[p].pc \in RecoverySteps =>
       /\ \A i \in DOMAIN proc'[p].binaryFiles :
            proc'[p].binaryFiles[i] \in binaryExtensionPaths
       /\ proc'[p].pc = "sm_checkout" =>
            Head(proc'[p].binaryFiles) \in binaryExtensionPaths
       /\ \A f \in Paths \ binaryExtensionPaths :
            /\ proc[p].pc \in ResolutionSteps => repo'.wt[f] = repo.wt[f]
            /\ repo'.wt[f] # repo.wt[f] => repo'.wt[f] \in LocalContents(p, f)]_vars

\* a recovery merge has gone past its resolution with a non-binary path that
\* differs from the remote's, the working tree holding the local version
C31_Witness ==
  \E p \in Procs, f \in Paths \ binaryExtensionPaths :
    /\ proc[p].pc = "sm_commit"
    /\ repo.wt[f] = LocalVersion
    /\ HeadTree(repo)[f] = LocalVersion
    /\ TreeOf(repo, repo.originHead)[f] = RemoteVersion

\* caller p takes the step in which the resolver decides on the file at the
\* head of binaryFiles: git log returned, or git show failed
Decides(p) ==
  /\ proc[p].pc \in {"sm_show", "sm_log"}
  /\ proc'[p].pc # "sm_log"
  /\ proc'[p] # proc[p]

\* the stage and commit steps of the recovery merge
StageAndCommit == {"add", "commit", "commit failed"}

\* C32: for the binary path the resolver decides on: when it returns
\* KeepRemote the next step checks out the remote version of exactly that
\* path into the working tree, before the stage and commit steps, and
\* leaves every other path as it is; when it returns KeepLocal no checkout
\* is issued for it and the working tree stays as it is
C32_RemoteWinsChecksOutThatPath ==
  [][\A p \in Procs :
       /\ Decides(p) =>
            \E lt \in 0..MaxTime, rt \in 0..MaxTime :
              LET d == InlineResolve(proc[p].localSize, lt, proc[p].remoteSize, rt)
              IN  /\ repo' = repo
                  /\ d.keepLocal =>
                       /\ proc'[p].pc # "sm_checkout"
                       /\ ~Has(proc'[p], "checkout")
                             \/ proc'[p].ops[Len(proc'[p].ops)] # "checkout"
                       /\ proc'[p].binaryFiles = Tail(proc[p].binaryFiles)
                  /\ ~d.keepLocal =>
                       /\ proc'[p].pc = "sm_checkout"
                       /\ proc'[p].binaryFiles = proc[p].binaryFiles
       /\ proc[p].pc = "sm_checkout" =>
            LET file == Head(proc[p].binaryFiles)
            IN  /\ repo'.wt = [repo.wt EXCEPT
                                 ![file] = TreeOf(repo, repo.originHead)[file]]
                /\ proc'[p].ops = Append(proc[p].ops, "checkout")
                /\ NoneOf(proc'[p], StageAndCommit)
                /\ proc'[p].binaryFiles = Tail(proc[p].binaryFiles)]_vars

\* the remote version of the binary path, committed later than the local
\* file was written and about as large, has been checked out over the local
\* version, and the recovery merge is at its commit
C32_Witness ==
  \E p \in Procs :
    /\ proc[p].pc = "sm_commit"
    /\ Has(proc[p], "checkout")
    /\ proc[p].start.head["a.png"] = LocalVersion
    /\ repo.wt["a.png"] = RemoteVersion

\* a pull whose recovery merge issued a force push that succeeded is over
ForcePushed(pr) == GitPullOver(pr) /\ Recovered(pr) /\ Has(pr, "push --force")

\* the tree of the remote tip when the pull was entered
RemoteTreeAtStart(pr) == TreeOf(repo, pr.start.remoteHead)

\* C33: after a recovery merge whose force push succeeded the remote branch
\* and the remote-tracking ref are at the local HEAD, which descends from
\* the local HEAD the pull was entered with, and the tip holds, for every
\* path, the version of that local HEAD, except for the binary path that
\* was checked out from the remote, which holds the remote version
C33_LocalHistoryWins ==
  \A p \in Procs :
    ForcePushed(proc[p]) =>
      /\ repo.remoteHead = repo.localHead
      /\ repo.originHead = repo.localHead
      /\ IsAncestor(repo, proc[p].start.localHead, repo.localHead)
      /\ \A f \in Paths :
           HeadTree(repo)[f] =
             IF f \in binaryExtensionPaths /\ Has(proc[p], "checkout")
               THEN RemoteTreeAtStart(proc[p])[f]
               ELSE proc[p].start.head[f]

\* a pull entered with a local commit and a remote commit that both changed
\* the binary path is over: the remote version was checked out and
\* committed on top of the local commit, and the remote was superseded
C33_Witness ==
  \E p \in Procs :
    /\ ForcePushed(proc[p])
    /\ Has(proc[p], "checkout")
    /\ proc[p].start.localHead = 2
    /\ proc[p].start.remoteHead = 3
    /\ repo.localHead = 4
    /\ repo.commits[4].parent = 2
    /\ HeadTree(repo)["a.png"] = RemoteVersion

\* what the remote-tracking ref holds of path f: its size at the tip, and the
\* date of the last commit of that history that changed it; 0 and 0 when the
\* tip does not hold the path
RemoteSizeAtRef(f) == SizeOf(TreeOf(repo, repo.originHead)[f])

RemoteDateAtRef(f) ==
  IF TreeOf(repo, repo.originHead)[f] = 0 THEN 0
  ELSE LogLatestDate(repo, repo.originHead, f)

\* C34: the resolver's remote inputs come from the remote-tracking ref: the
\* size git show returns is that of the path at its tip, and the decision
\* taken on a path is the resolver's for the local file's size and time
\* (0 and 0 when the file is absent), the size at the remote tip and the
\* date of the last change to the path in the remote-tracking branch's
\* history (0 and 0 when the tip does not hold the path)
C34_RemoteInputsFromRemoteRef ==
  [][\A p \in Procs :
       /\ (proc[p].pc = "sm_show" /\ proc'[p].pc = "sm_log") =>
            proc'[p].remoteSize = RemoteSizeAtRef(Head(proc[p].binaryFiles))
       /\ Decides(p) =>
            LET file == Head(proc[p].binaryFiles)
            IN  /\ proc[p].localSize = SizeOf(repo.wt[file])
                /\ \E lt \in IF repo.wt[file] = 0 THEN {0} ELSE 0..MaxTime :
                     proc'[p].pc = "sm_checkout" <=>
                       ~InlineResolve(proc[p].localSize, lt, RemoteSizeAtRef(file),
                                      RemoteDateAtRef(file)).keepLocal]_vars

(***************************************************************************)
(* Termination (checked under SpecOnce).                                   *)
(***************************************************************************)
\* the operation of caller p ended in Done or in Failed
Ended(p) == proc[p].pc = "idle" /\ proc[p].ret \in {"ok", "error"}

\* how often a call issued primitive `name`
Count(pr, name) == Cardinality(Positions(pr, name))

\* C35: every pull(), and every sync() or push() built on it, ends in Done
\* or Failed when each primitive and copy returns or fails; pull --rebase
\* is issued at most once per call, the recovery merge is entered at most
\* once and each of its steps issued at most once (show, log and checkout at
\* most once per binary path), and so is each push step
C35_OperationsTerminate ==
  /\ \A p \in {1} : (proc[p].pc # "idle") ~> Ended(p)
  /\ [](\A p \in {1} :
          /\ \A name \in {"pull --rebase", "stash push", "rebase --abort",
                           "merge --abort", "reset --hard", "fetch", "diff",
                           "push --force", "push --force failed", "copyFrom",
                           "copyTo", "push", "push failed"} :
               Count(proc[p], name) <= 1
          /\ Count(proc[p], "push --force") + Count(proc[p], "push --force failed") <= 1
          /\ \A name \in {"show", "log", "checkout"} :
               Count(proc[p], name) <= Cardinality(binaryExtensionPaths)
          /\ Count(proc[p], "stash pop") <= 1
          /\ Count(proc[p], "add") <= 2
          /\ Count(proc[p], "status") <= 3
          /\ Count(proc[p], "commit") + Count(proc[p], "commit failed") <= 2)

\* a sync() that went through the recovery merge and the push steps is over
C35_Witness ==
  /\ proc[1].op = "sync"
  /\ Ended(1)
  /\ Recovered(proc[1])
  /\ Has(proc[1], "checkout")
  /\ Has(proc[1], "copyTo")

(***************************************************************************)
(* Properties of the in-flight flag and of the reported status (checked    *)
(* under Spec).                                                            *)
(***************************************************************************)
\* no sync() is executing
NoSyncExecuting == \A p \in Procs : ~SyncInFlight(p)

\* the sync() of caller p ends in this step, or was called and ended in it
SyncExits(p) ==
  /\ proc'[p].op = "sync"
  /\ proc'[p].pc = "idle"
  /\ SyncInFlight(p) \/ SyncCalled(p)

\* C36: sync() releases the in-flight flag on every exit: whenever no sync()
\* is executing the flag is false, every step in which a sync() that had
\* set the flag ends, with or without an error, leaves it false, and a
\* sync() called while none is executing is never skipped
C36_FlagReleasedOnEveryExit ==
  /\ [](NoSyncExecuting => ~isSyncing)
  /\ [][\A p \in Procs :
          /\ (SyncExits(p) /\ proc'[p].ret # "skipped") => ~isSyncing'
          /\ (SyncCalled(p) /\ NoSyncExecuting) => proc'[p].ret # "skipped"]_vars

\* a sync() that failed in its push steps is over, nothing is executing and
\* the flag is clear
C36_Witness ==
  /\ Quiescent
  /\ ~isSyncing
  /\ \E p \in Procs :
       /\ proc[p].op = "sync"
       /\ proc[p].ret = "error"
       /\ Has(proc[p], "copyTo")
       /\ Has(proc[p], "push failed")

\* C37: while a sync() is in flight, the flag isSyncing being set, the
\* status given to the status bar is never Synced, in particular not
\* between the end of its pull phase and the end of its push phase
C37_NoSyncedWhileSyncing ==
  \A p \in Procs :
    (SyncInFlight(p) /\ isSyncing) =>
      /\ statusBar # "Synced"
      /\ LastReport(proc[p]) # "Synced"

(***************************************************************************)
(* Stash balance (checked under SpecPull).                                 *)
(***************************************************************************)
\* the initial status of the pull showed changes
StartHadChanges(pr) ==
  \/ \E f \in Paths : pr.start.wt[f] # pr.start.head[f]
  \/ pr.start.conflicted # {}

\* the stash push of the call failed: pull() threw its error at once
StashPushFailed(pr) ==
  /\ Returned(pr)
  /\ pr.ops # <<>>
  /\ pr.ops[Len(pr.ops)] = "stash push"
  /\ pr.ret = "error"

\* a stash push is issued at most once, and only when the initial status
\* showed changes and no conflicted path; no pop without a push
StashPushOnce(pr) ==
  /\ Count(pr, "stash push") <= 1
  /\ Has(pr, "stash push") => (StartHadChanges(pr) /\ pr.start.conflicted = {})
  /\ Count(pr, "stash pop") <= Count(pr, "stash push")

getSecondsUntilNextSync ==
  IF auto.nextSyncTime = 0 THEN 0 ELSE SecondsLeft(auto.nextSyncTime, now)

\* C39: while the auto-sync timer is not running (never started, or stopped
\* and not started again) the next-fire time is 0 and
\* getSecondsUntilNextSync() returns 0, also when a sync() the timer had
\* called before the stop completes after it
C39_StoppedStaysZero ==
  ~auto.autoSyncTimer.set =>
    /\ auto.nextSyncTime = 0
    /\ getSecondsUntilNextSync = 0

(***************************************************************************)
(* The mirror copy: on a repository in any of the states above, whose      *)
(* paths are all in the source directory, the working directory and the    *)
(* history, the user deletes source files between operations, calls push() *)
(* and, once it has completed without error, pull().                       *)
(***************************************************************************)
\* the user removes file f from the source directory (config.geminiPath)
DeleteSource(f) ==
  /\ Quiescent
  /\ nCalls < MaxCalls
  /\ source[f] # 0
  /\ source' = [source EXCEPT ![f] = 0]
  /\ UNCHANGED <<rIn, rOut, repo, proc, isSyncing, statusBar, gitService, nCalls, now, auto, config>>

PullAfterPush(p) ==
  /\ nCalls = 1
  /\ proc[p].op = "push" /\ proc[p].ret = "ok"
  /\ Pull(p)

NextMirror ==
  \/ \E f \in Paths : DeleteSource(f)
  \/ \E p \in {1} :
       \/ PushFirst(p) \/ PullAfterPush(p)
       \/ OperationStep(p)

SpecMirror == InitPull /\ [][NextMirror]_vars

\* the step in which an operation op of caller p completes without error
Completes(p, op) ==
  /\ proc[p].pc # "idle"
  /\ proc'[p].pc = "idle" /\ proc'[p].op = op /\ proc'[p].ret = "ok"

\* C40: the mirror copy never deletes.  No step of push() or pull(), copy or
\* git primitive, removes a path from the working directory, and none
\* removes one from the source directory, where only the user deletes; a
\* source path that exists is written to the working directory by
\* copyFilesToSyncRepo and one that does not is left as it was there; when
\* push() has completed every path, deleted from the source directory or
\* not, is in the working directory, and the step that completes the pull()
\* after it writes every working-directory file into the source directory
C40_MirrorNeverDeletes ==
  [][/\ \A f \in Paths : repo.wt[f] # 0 => repo'.wt[f] # 0
     /\ \A f \in Paths :
          (source[f] # 0 /\ source'[f] = 0) => (Quiescent /\ proc' = proc)
     /\ \A p \in Procs :
          (proc[p].pc = "ps_copy" /\ proc'[p].pc = "ps_add") =>
            \A f \in Paths :
              repo'.wt[f] = IF source[f] # 0 THEN source[f] ELSE repo.wt[f]
     /\ \A p \in Procs :
          Completes(p, "push") => \A f \in Paths : repo'.wt[f] # 0
     /\ \A p \in Procs :
          Completes(p, "pull") =>
            \A f \in Paths : source'[f] # 0 /\ source'[f] = repo'.wt[f]]_vars

\* push() and then pull() have completed, and the source directory holds a
\* path with the content of a local commit or of an uncommitted edit of the
\* working directory: push() did not overwrite that content, so the path was
\* missing from the source directory when push() copied, and pull() has
\* written it back
C40_Witness ==
  \E p \in Procs, f \in Paths :
    /\ nCalls = 2
    /\ proc[p].pc = "idle" /\ proc[p].op = "pull" /\ proc[p].ret = "ok"
    /\ source[f] \in {LocalVersion, EditedVersion}
    /\ source[f] = repo.wt[f]

====
